---- MODULE Spec2Model ----
(***************************************************************************)
(* Model of app.py (gitdeath/cf-search): the upgrade-search script for     *)
(* Radarr and Sonarr.  The external HTTP API is a nondeterministic         *)
(* collaborator: every response is drawn from a bounded set and recorded   *)
(* in the variable api.  Time is the integer clock of time.time().         *)
(***************************************************************************)
EXTENDS Integers, Sequences, FiniteSets, TLC

VARIABLES
    now,                        \* value returned by time.time()
    disk,                       \* contents of HISTORY_FILE: [ok, raises, data]
    dry_run,                    \* main: DRY_RUN
    cooldown_seconds,           \* main: cooldown_days * 86400
    max_upgrades,               \* main: MAX_UPGRADES
    all_configs,                \* main: load_configs("RADARR") + load_configs("SONARR")
    search_history,             \* main: the in-memory history dict
    remaining_global_upgrades,  \* main: the shared global budget
    i,                          \* main: index of the instance in the loop (1-based)
    config,                     \* the config passed to get_*_upgradeables
    api,                        \* the API responses the current scan received
    cutoff_unmet_items,         \* tier 1 list returned by get_*_upgradeables
    cf_upgradeable_items,       \* tier 2 list returned by get_*_upgradeables
    cutoff_selected,            \* main: random.sample of tier 1
    cf_selected,                \* main: random.sample of tier 2
    items_to_search,            \* main / trigger_grouped_searches argument
    pending,                    \* trigger_grouped_searches: commands not yet reached
    posted,                     \* commands received by the API through _post
    saves,                      \* number of save_history calls of the run
    selected_total,             \* observer: items selected so far in the run
    dispatched,                 \* observer: keys searched in this run, and those saved since
    env,                        \* os.environ as load_configs reads it
    qualityprofile,             \* the answer of _get("qualityprofile")
    profile_details,            \* what get_quality_profile_details returned
    pc                          \* position in main (or in the unit harness)

vars == <<now, disk, dry_run, cooldown_seconds, max_upgrades, all_configs,
          search_history, remaining_global_upgrades, i, config, api,
          cutoff_unmet_items, cf_upgradeable_items, cutoff_selected,
          cf_selected, items_to_search, pending, posted, saves, selected_total,
          dispatched, env, qualityprofile, profile_details, pc>>

(***************************************************************************)
(* Bounds of the model and constants of the program.                       *)
(***************************************************************************)
MaxItems == 2           \* movies (or episode files) in one library
MaxTime == 3            \* the clock runs over 1..MaxTime half days
MaxBudget == 2          \* largest finite MAX_UPGRADES tried

maxsize == 2147483647   \* sys.maxsize, the "unlimited" sentinel (32-bit here)
DaySeconds == 86400     \* seconds per cooldown day
None == -1              \* Python None for optional integers

HalfDay == DaySeconds \div 2
Times == {t * HalfDay : t \in 1..MaxTime}
LastTime == MaxTime * HalfDay

Min(a, b) == IF a <= b THEN a ELSE b
Min3(a, b, c) == Min(a, Min(b, c))

(***************************************************************************)
(* History: a dict from key strings to timestamps.                         *)
(***************************************************************************)
EmptyHistory == [k \in {} |-> 0]

DictSet(d, k, v) == [x \in DOMAIN d \cup {k} |-> IF x = k THEN v ELSE d[x]]

\* f"{service_type}-{id}"
ItemKey(service_type, id) == service_type \o "-" \o ToString(id)

\* "<serviceType>-series-<seriesId>-season-<seasonNumber>" (spec.md, data model)
SeasonKey(service_type, seriesId, seasonNumber) ==
    service_type \o "-series-" \o ToString(seriesId) \o "-season-" \o ToString(seasonNumber)

\* The cooldown comparison turned around.
RecentlySearchedFlipped(history, key, t, cooldown) ==
    /\ key \in DOMAIN history
    /\ history[key] # 0
    /\ (t - history[key]) > cooldown

\* last_searched_timestamp and (time.time() - last_searched_timestamp) < cooldown_seconds
RecentlySearched(history, key, t, cooldown) ==
    /\ key \in DOMAIN history
    /\ history[key] # 0
    /\ (t - history[key]) < cooldown

(***************************************************************************)
(* Quality profiles as returned by get_quality_profile_details: profile id *)
(* -> cutoffFormatScore (None when the profile defines none).              *)
(***************************************************************************)
NoProfiles == [p \in {} |-> None]
ProfileDetails == [p \in {1, 2} |-> IF p = 1 THEN 1000 ELSE None]

\* quality_profile_details.get(profile_id, {}).get("cutoffFormatScore")
CutoffScoreOf(profiles, profile_id) ==
    IF profile_id \in DOMAIN profiles THEN profiles[profile_id] ELSE None

ScoreReason(current_score, cutoff_score) ==
    "CF score " \o ToString(current_score) \o " < cutoff " \o ToString(cutoff_score)

CutoffReason == "Quality cutoff not met"

(***************************************************************************)
(* get_radarr_upgradeables                                                 *)
(***************************************************************************)
MovieItem(movie, reason) ==
    [id |-> movie.id, type |-> "movie", seriesId |-> None, seasonNumber |-> None,
     reason |-> reason]

\* The monitored flag of the movie is not looked at.
RadarrMovieUnmonitoredToo(lists, movie, profiles, history, t, cooldown) ==
    LET cutoff_score == CutoffScoreOf(profiles, movie.qualityProfileId)
        movie_file == movie.movieFile
    IN  IF ~movie.hasFile THEN lists
        ELSE IF RecentlySearched(history, ItemKey("radarr", movie.id), t, cooldown) THEN lists
        ELSE IF ~movie_file.ok THEN lists
        ELSE IF movie_file.qualityCutoffNotMet
             THEN [lists EXCEPT !.cutoff_unmet = Append(@, MovieItem(movie, CutoffReason))]
        ELSE IF cutoff_score # None /\ movie_file.customFormatScore < cutoff_score
             THEN [lists EXCEPT !.cf_upgradeable =
                      Append(@, MovieItem(movie, ScoreReason(movie_file.customFormatScore, cutoff_score)))]
        ELSE lists

\* A movie file that cannot be fetched discards what was listed so far.
RadarrMovieLookupAborts(lists, movie, profiles, history, t, cooldown) ==
    LET cutoff_score == CutoffScoreOf(profiles, movie.qualityProfileId)
        movie_file == movie.movieFile
    IN  IF ~(movie.monitored /\ movie.hasFile) THEN lists
        ELSE IF RecentlySearched(history, ItemKey("radarr", movie.id), t, cooldown) THEN lists
        ELSE IF ~movie_file.ok THEN [cutoff_unmet |-> <<>>, cf_upgradeable |-> <<>>]
        ELSE IF movie_file.qualityCutoffNotMet
             THEN [lists EXCEPT !.cutoff_unmet = Append(@, MovieItem(movie, CutoffReason))]
        ELSE IF cutoff_score # None /\ movie_file.customFormatScore < cutoff_score
             THEN [lists EXCEPT !.cf_upgradeable =
                      Append(@, MovieItem(movie, ScoreReason(movie_file.customFormatScore, cutoff_score)))]
        ELSE lists

\* One iteration of "for movie in all_movies": the lists after the movie.
RadarrMovie(lists, movie, profiles, history, t, cooldown) ==
    LET cutoff_score == CutoffScoreOf(profiles, movie.qualityProfileId)
        movie_file == movie.movieFile
    IN  IF ~(movie.monitored /\ movie.hasFile) THEN lists
        ELSE IF RecentlySearched(history, ItemKey("radarr", movie.id), t, cooldown) THEN lists
        ELSE IF ~movie_file.ok THEN lists
        ELSE IF movie_file.qualityCutoffNotMet
             THEN [lists EXCEPT !.cutoff_unmet = Append(@, MovieItem(movie, CutoffReason))]
        ELSE IF cutoff_score # None /\ movie_file.customFormatScore < cutoff_score
             THEN [lists EXCEPT !.cf_upgradeable =
                      Append(@, MovieItem(movie, ScoreReason(movie_file.customFormatScore, cutoff_score)))]
        ELSE lists

RECURSIVE RadarrLoop(_, _, _, _, _, _)
RadarrLoop(lists, movies, profiles, history, t, cooldown) ==
    IF movies = <<>> THEN lists
    ELSE RadarrLoop(RadarrMovie(lists, Head(movies), profiles, history, t, cooldown),
                    Tail(movies), profiles, history, t, cooldown)

NoLists == [cutoff_unmet |-> <<>>, cf_upgradeable |-> <<>>]

\* The queue has to exceed the limit, not reach it.
QueueFullStrict(cfg, response) ==
    cfg.queue_size_limit # None /\ response.queue > cfg.queue_size_limit

\* The queue gate shared by both scans.
QueueFull(cfg, response) ==
    cfg.queue_size_limit # None /\ response.queue >= cfg.queue_size_limit

\* The movies are classified whatever the earlier calls returned.
get_radarr_upgradeables_unchecked(cfg, response, history, t, cooldown) ==
    RadarrLoop(NoLists, response.movies, response.profiles, history, t, cooldown)

get_radarr_upgradeables(cfg, response, history, t, cooldown) ==
    IF ~response.conn THEN NoLists
    ELSE IF QueueFull(cfg, response) THEN NoLists
    ELSE IF DOMAIN response.profiles = {} THEN NoLists
    ELSE IF ~response.fetched THEN NoLists
    ELSE RadarrLoop(NoLists, response.movies, response.profiles, history, t, cooldown)

(***************************************************************************)
(* get_sonarr_upgradeables                                                 *)
(***************************************************************************)
EpisodeItem(series, episode, reason) ==
    [id |-> episode.id, type |-> "episode", seriesId |-> series.id,
     seasonNumber |-> episode.seasonNumber, reason |-> reason]

\* One iteration of "for episode_file in all_episode_files".  The tier 2
\* append sits inside the "if qualityCutoffNotMet" block (lines 411-430).
SonarrEpisodeFile(lists, series, episode_file, cutoff_score, history, t, cooldown) ==
    LET episode == episode_file.episode
        current_score == episode_file.customFormatScore
    IN  IF ~episode_file.episode_ok THEN lists
        ELSE IF ~episode.monitored THEN lists
        ELSE IF RecentlySearched(history, ItemKey("sonarr", episode.id), t, cooldown) THEN lists
        ELSE IF episode_file.qualityCutoffNotMet
             THEN [cutoff_unmet |-> Append(lists.cutoff_unmet,
                                           EpisodeItem(series, episode, CutoffReason)),
                   cf_upgradeable |-> Append(lists.cf_upgradeable,
                                             EpisodeItem(series, episode,
                                                         ScoreReason(current_score, cutoff_score)))]
        ELSE lists

RECURSIVE SonarrFilesLoop(_, _, _, _, _, _, _)
SonarrFilesLoop(lists, series, files, cutoff_score, history, t, cooldown) ==
    IF files = <<>> THEN lists
    ELSE SonarrFilesLoop(
             SonarrEpisodeFile(lists, series, Head(files), cutoff_score, history, t, cooldown),
             series, Tail(files), cutoff_score, history, t, cooldown)

\* A series is scanned whether or not its profile has a cutoff score.
SonarrSeriesAnyProfile(lists, series, profiles, history, t, cooldown) ==
    LET cutoff_score == CutoffScoreOf(profiles, series.qualityProfileId)
    IN  IF series.episodeFileCount = 0 THEN lists
        ELSE IF series.episode_files = <<>> THEN lists
        ELSE SonarrFilesLoop(lists, series, series.episode_files, cutoff_score,
                             history, t, cooldown)

\* One iteration of "for series in all_series".
SonarrSeries(lists, series, profiles, history, t, cooldown) ==
    LET cutoff_score == CutoffScoreOf(profiles, series.qualityProfileId)
    IN  IF series.episodeFileCount = 0 THEN lists
        ELSE IF cutoff_score = None THEN lists
        ELSE IF series.episode_files = <<>> THEN lists
        ELSE SonarrFilesLoop(lists, series, series.episode_files, cutoff_score,
                             history, t, cooldown)

RECURSIVE SonarrLoop(_, _, _, _, _, _)
SonarrLoop(lists, all_series, profiles, history, t, cooldown) ==
    IF all_series = <<>> THEN lists
    ELSE SonarrLoop(SonarrSeries(lists, Head(all_series), profiles, history, t, cooldown),
                    Tail(all_series), profiles, history, t, cooldown)

get_sonarr_upgradeables(cfg, response, history, t, cooldown) ==
    IF ~response.conn THEN NoLists
    ELSE IF QueueFull(cfg, response) THEN NoLists
    ELSE IF DOMAIN response.profiles = {} THEN NoLists
    ELSE IF ~response.fetched THEN NoLists
    ELSE SonarrLoop(NoLists, response.series, response.profiles, history, t, cooldown)

(***************************************************************************)
(* update_history                                                          *)
(***************************************************************************)
\* The history is left for later.
update_history_skipped(searched_items, history, t) == history

\* A key that is already there gets its old timestamp plus one.
update_history_bumped(searched_items, history, t) ==
    LET keys == {ItemKey(searched_items[j].service_type, searched_items[j].id) :
                    j \in 1..Len(searched_items)}
    IN  [k \in DOMAIN history \cup keys |->
            IF k \notin keys THEN history[k]
            ELSE IF k \in DOMAIN history THEN history[k] + 1 ELSE t]

\* Every entry of the history gets the time of the call.
update_history_touching_all(searched_items, history, t) ==
    LET keys == {ItemKey(searched_items[j].service_type, searched_items[j].id) :
                    j \in 1..Len(searched_items)}
    IN  [k \in DOMAIN history \cup keys |-> t]

RECURSIVE update_history(_, _, _)
update_history(searched_items, history, t) ==
    IF searched_items = <<>> THEN history
    ELSE LET item == Head(searched_items)
         IN  update_history(Tail(searched_items),
                            DictSet(history, ItemKey(item.service_type, item.id), t), t)

(***************************************************************************)
(* load_history / save_history                                             *)
(***************************************************************************)
\* The file is not read.
load_history_fresh(file, t, cooldown) == EmptyHistory

\* The contents of HISTORY_FILE as load_history meets them:
\*   ok      json.load gave a mapping of keys to numbers (data);
\*   raises  reading it raises an exception that load_history does not catch:
\*           bytes that are no text (UnicodeDecodeError), or a JSON value that
\*           is no mapping of numbers (AttributeError, TypeError);
\*   neither the file is missing or no JSON (FileNotFoundError, JSONDecodeError).
NoFile == [ok |-> FALSE, raises |-> FALSE, data |-> EmptyHistory]

UnreadableFile == [ok |-> FALSE, raises |-> TRUE, data |-> EmptyHistory]

\* The exception leaves load_history (and main).
load_history_raises(file) == file.raises

load_history(file, t, cooldown) ==
    IF ~file.ok THEN EmptyHistory
    ELSE LET keep == {k \in DOMAIN file.data : (t - file.data[k]) < cooldown}
         IN  [k \in keep |-> file.data[k]]

\* open(HISTORY_FILE, 'w') + json.dump: written, or an IOError that leaves the
\* old file (open failed) or a truncated one (dump failed).
save_history(file, history_data, outcome) ==
    CASE outcome = "written" -> [ok |-> TRUE, raises |-> FALSE, data |-> history_data]
      [] outcome = "unchanged" -> file
      [] OTHER -> NoFile

SaveOutcomes == {"written", "unchanged", "truncated"}

(***************************************************************************)
(* main: selection                                                         *)
(***************************************************************************)
\* random.sample(population, k): k distinct positions, in any order.
Sample(population, k) ==
    {[j \in 1..k |-> population[p[j]]] :
        p \in {q \in [1..k -> 1..Len(population)] :
                  \A a, b \in 1..k : a # b => q[a] # q[b]}}

\* The global budget left out of the minimum.
num_to_select_cutoff_no_budget(cfg, unmet, remaining) ==
    Min(Len(unmet), cfg.num_cutoff_unmet_to_upgrade)

\* One unit of the global budget is held back from the first tier.
num_to_select_cutoff_holding_back(cfg, unmet, remaining) ==
    Min3(Len(unmet), cfg.num_cutoff_unmet_to_upgrade, remaining - 1)

\* min(len(cutoff_unmet_items), cutoff_limit, remaining_global_upgrades)
num_to_select_cutoff(cfg, unmet, remaining) ==
    Min3(Len(unmet), cfg.num_cutoff_unmet_to_upgrade, remaining)

\* The global budget left out of the minimum.
num_to_select_cf_no_budget(cfg, upgradeable, remaining) ==
    Min(Len(upgradeable), cfg.num_to_upgrade)

\* min(len(cf_upgradeable_items), cf_limit, remaining_global_upgrades)
num_to_select_cf(cfg, upgradeable, remaining) ==
    Min3(Len(upgradeable), cfg.num_to_upgrade, remaining)

\* "for item in items_to_search": attach service, service_type, search_mode.
Attach(item, cfg) ==
    [id |-> item.id, type |-> item.type, seriesId |-> item.seriesId,
     seasonNumber |-> item.seasonNumber, reason |-> item.reason,
     service |-> cfg.instance_name, service_type |-> cfg.service_type,
     search_mode |-> IF cfg.service_type = "sonarr" THEN cfg.search_mode ELSE "absent"]

AttachAll(items, cfg) == [j \in 1..Len(items) |-> Attach(items[j], cfg)]

(***************************************************************************)
(* trigger_grouped_searches: the commands it sends, in order               *)
(***************************************************************************)
\* Keys of a dict in insertion order: the first occurrences of a sequence.
RECURSIVE InsertionOrder(_, _)
InsertionOrder(seq, seen) ==
    IF seq = <<>> THEN <<>>
    ELSE IF Head(seq) \in seen THEN InsertionOrder(Tail(seq), seen)
    ELSE <<Head(seq)>> \o InsertionOrder(Tail(seq), seen \cup {Head(seq)})

IdsOf(items) == [j \in 1..Len(items) |-> items[j].id]

\* The command carries the id of the first item only.
BatchCommandFirstOnly(service, name, items) ==
    [name |-> name, service |-> service, ids |-> <<items[1].id>>,
     seriesId |-> None, seasonNumber |-> None]

BatchCommand(service, name, items) ==
    [name |-> name, service |-> service, ids |-> IdsOf(items),
     seriesId |-> None, seasonNumber |-> None]

SeasonCommand(service, key) ==
    [name |-> "SeasonSearch", service |-> service, ids |-> <<>>,
     seriesId |-> key[1], seasonNumber |-> key[2]]

\* episode.get('search_mode', 'episode')
ModeOf(episode) == IF episode.search_mode = "absent" THEN "episode" ELSE episode.search_mode

\* One key per episode, without grouping.
SeasonsToSearchUngrouped(episodes) ==
    [j \in 1..Len(episodes) |-> <<episodes[j].seriesId, episodes[j].seasonNumber>>]

\* seasons_to_search: one key per distinct (seriesId, seasonNumber).
SeasonsToSearch(episodes) ==
    InsertionOrder([j \in 1..Len(episodes) |->
                       <<episodes[j].seriesId, episodes[j].seasonNumber>>], {})

\* The dry-run test left out.
trigger_search_always(sent, command, dry) == Append(sent, command)

\* ArrService.trigger_search: post the batched command unless the run is dry.
trigger_search(sent, command, dry) == IF dry THEN sent ELSE Append(sent, command)

\* Lines 630-634: post the SeasonSearch unless the run is dry.
season_search(sent, command, dry) == IF dry THEN sent ELSE Append(sent, command)

\* The body of "for service, items in searches_by_service.items()".
ServiceCommands(service, items) ==
    LET IsMovie(x) == x.service = service /\ x.type = "movie"
        IsEpisode(x) == x.service = service /\ x.type = "episode"
        InEpisodeMode(x) == ModeOf(x) = "episode"
        InSeasonMode(x) == ModeOf(x) = "season"
        movies == SelectSeq(items, IsMovie)
        episodes == SelectSeq(items, IsEpisode)
        by_episode == SelectSeq(episodes, InEpisodeMode)
        by_season == SelectSeq(episodes, InSeasonMode)
        seasons == SeasonsToSearch(by_season)
    IN  (IF movies # <<>> THEN <<BatchCommand(service, "MoviesSearch", movies)>> ELSE <<>>)
        \o (IF by_episode # <<>>
            THEN <<BatchCommand(service, "EpisodeSearch", by_episode)>> ELSE <<>>)
        \o [j \in 1..Len(seasons) |-> SeasonCommand(service, seasons[j])]

RECURSIVE CommandsFor(_, _)
CommandsFor(services, items) ==
    IF services = <<>> THEN <<>>
    ELSE ServiceCommands(Head(services), items) \o CommandsFor(Tail(services), items)

\* searches_by_service, flattened to the commands in sending order.
GroupedCommands(items) ==
    CommandsFor(InsertionOrder([j \in 1..Len(items) |-> items[j].service], {}), items)

(***************************************************************************)
(* load_configs: the instance configurations read from the environment.    *)
(* env maps the names of the variables that are set to their strings.      *)
(***************************************************************************)
\* os.getenv(name) is not None
IsSet(e, name) == name \in DOMAIN e

\* The integers whose decimal form int() is given in this model.
EnvInts == (0 - MaxBudget)..MaxBudget

\* int(s) succeeds / the value of int(s)
IsInt(s) == \E n \in EnvInts : ToString(n) = s

int(s) == CHOOSE n \in EnvInts : ToString(n) = s

\* str.lower() on the strings of this model
lower(s) ==
    CASE s = "SEASON" -> "season"
      [] s = "RADARR" -> "radarr"
      [] s = "SONARR" -> "sonarr"
      [] OTHER -> s

\* A negative value is kept as it is.
instance_limit_negative_kept(e, prefix) ==
    LET name == prefix \o "_NUM_TO_UPGRADE"
    IN  IF ~IsSet(e, name) THEN maxsize
        ELSE IF ~IsInt(e[name]) THEN maxsize
        ELSE int(e[name])

\* Lines 483-496: NUM_TO_UPGRADE
instance_limit(e, prefix) ==
    LET name == prefix \o "_NUM_TO_UPGRADE"
    IN  IF ~IsSet(e, name) THEN maxsize
        ELSE IF ~IsInt(e[name]) THEN maxsize
        ELSE IF int(e[name]) < 0 THEN maxsize ELSE int(e[name])

\* Lines 498-511: NUM_CUTOFF_UNMET_TO_UPGRADE
instance_cutoff_limit(e, prefix) ==
    LET name == prefix \o "_NUM_CUTOFF_UNMET_TO_UPGRADE"
    IN  IF ~IsSet(e, name) THEN 0
        ELSE IF ~IsInt(e[name]) THEN maxsize
        ELSE IF int(e[name]) < 0 THEN maxsize ELSE int(e[name])

\* Lines 513-524: QUEUE_SIZE_LIMIT
queue_size_limit(e, prefix) ==
    LET name == prefix \o "_QUEUE_SIZE_LIMIT"
    IN  IF ~IsSet(e, name) THEN None
        ELSE IF ~IsInt(e[name]) THEN None
        ELSE IF int(e[name]) < 0 THEN None ELSE int(e[name])

\* Lines 526-530: SEARCH_MODE
search_mode(e, prefix) ==
    LET name == prefix \o "_SEARCH_MODE"
        mode == IF IsSet(e, name) THEN lower(e[name]) ELSE "episode"
    IN  IF mode \notin {"episode", "season"} THEN "episode" ELSE mode

\* all([url, api_key]): both are set and not empty
HasInstance(e, prefix) ==
    /\ IsSet(e, prefix \o "_URL") /\ e[prefix \o "_URL"] # ""
    /\ IsSet(e, prefix \o "_API_KEY") /\ e[prefix \o "_API_KEY"] # ""

\* The "while True" loop from index n on.
RECURSIVE load_configs_from(_, _, _)
load_configs_from(e, service_name, n) ==
    LET prefix == service_name \o ToString(n)
    IN  IF ~HasInstance(e, prefix) THEN <<>>
        ELSE <<[service_type |-> lower(service_name),
                instance_name |-> prefix,
                num_cutoff_unmet_to_upgrade |-> instance_cutoff_limit(e, prefix),
                num_to_upgrade |-> instance_limit(e, prefix),
                queue_size_limit |-> queue_size_limit(e, prefix),
                search_mode |-> search_mode(e, prefix)]>>
             \o load_configs_from(e, service_name, n + 1)

load_configs(e, service_name) == load_configs_from(e, service_name, 0)

(***************************************************************************)
(* ArrService.get_quality_profile_details.  A profile is                   *)
(* [id, cutoff, cutoffFormatScore, items]; an item is [has_quality,        *)
(* quality], where has_quality = FALSE is an item without a "quality" key  *)
(* (its quality field then holds None and no name).  A missing cutoff or   *)
(* cutoffFormatScore is None.                                              *)
(***************************************************************************)
KeyError == "KeyError"

\* Lines 122-125: the name of the first item whose quality id is the cutoff;
\* item["quality"]["name"] raises KeyError on an item without a quality.
RECURSIVE cutoff_quality_name(_, _)
cutoff_quality_name(items, cutoff_quality_id) ==
    IF items = <<>> THEN [raised |-> FALSE, name |-> "N/A"]
    ELSE LET item == Head(items)
         IN  IF item.quality.id = cutoff_quality_id
             THEN IF item.has_quality
                  THEN [raised |-> FALSE, name |-> item.quality.name]
                  ELSE [raised |-> TRUE, name |-> KeyError]
             ELSE cutoff_quality_name(Tail(items), cutoff_quality_id)

\* The "for profile in profiles" loop: the mapping so far, or the exception.
RECURSIVE profile_loop(_, _)
profile_loop(profiles, details) ==
    IF profiles = <<>> THEN [raised |-> FALSE, details |-> details]
    ELSE LET profile == Head(profiles)
             found == cutoff_quality_name(profile.items, profile.cutoff)
         IN  IF found.raised THEN [raised |-> TRUE, details |-> [p \in {} |-> <<>>]]
             ELSE profile_loop(Tail(profiles),
                               DictSet(details, profile.id,
                                       [cutoffFormatScore |-> profile.cutoffFormatScore,
                                        cutoffQualityName |-> found.name]))

get_quality_profile_details(answer) ==
    IF ~answer.ok THEN [raised |-> FALSE, details |-> [p \in {} |-> <<>>]]
    ELSE profile_loop(answer.profiles, [p \in {} |-> <<>>])

(***************************************************************************)
(* Inputs: what the API of an instance may answer, and the configurations. *)
(***************************************************************************)
ItemIds == 1..MaxItems
Scores == {500, 1000}
Seasons == {1, 2}
CapValues == {0, 1, maxsize}

Config(service_type, index, cutoff_cap, cf_cap, queue_limit, mode) ==
    [service_type |-> service_type,
     instance_name |-> service_type \o ToString(index),
     num_cutoff_unmet_to_upgrade |-> cutoff_cap,
     num_to_upgrade |-> cf_cap,
     queue_size_limit |-> queue_limit,
     search_mode |-> mode]

\* A movie file record that could not be fetched (ok = FALSE) carries no data.
MovieFiles ==
    [ok : {TRUE}, qualityCutoffNotMet : BOOLEAN, customFormatScore : Scores]
    \cup [ok : {FALSE}, qualityCutoffNotMet : {TRUE}, customFormatScore : {500}]

\* A movie without a file has no file record to fetch; the file of an
\* unmonitored movie is the one most in need of an upgrade.
MovieStates ==
    {m \in [monitored : BOOLEAN, hasFile : BOOLEAN, qualityProfileId : {1, 2},
            movieFile : MovieFiles] :
        /\ ~m.hasFile => ~m.movieFile.ok
        /\ (m.hasFile /\ ~m.monitored) =>
               (m.movieFile.ok /\ m.movieFile.qualityCutoffNotMet
                /\ m.movieFile.customFormatScore = 500)}

\* Movies every gate lets through: monitored, with a file, profile with a cutoff score.
EligibleMovieStates ==
    {m \in MovieStates : m.monitored /\ m.hasFile /\ m.qualityProfileId = 1 /\ m.movieFile.ok}

MovieLists(states) ==
    {[j \in ItemIds |-> [id |-> j, monitored |-> f[j].monitored, hasFile |-> f[j].hasFile,
                         qualityProfileId |-> f[j].qualityProfileId,
                         movieFile |-> f[j].movieFile]] : f \in [ItemIds -> states]}

\* An episode file whose episode lookup returned nothing (episode_ok = FALSE)
\* carries no episode; the file of an unmonitored episode has a low score.
EpisodeFileStates ==
    [qualityCutoffNotMet : BOOLEAN, customFormatScore : Scores, episode_ok : {TRUE},
     monitored : {TRUE}, seasonNumber : Seasons]
    \cup [qualityCutoffNotMet : BOOLEAN, customFormatScore : {500}, episode_ok : {TRUE},
          monitored : {FALSE}, seasonNumber : {1}]
    \cup [qualityCutoffNotMet : {TRUE}, customFormatScore : {500}, episode_ok : {FALSE},
          monitored : {TRUE}, seasonNumber : {1}]

EligibleEpisodeFileStates ==
    {e \in EpisodeFileStates : e.episode_ok /\ e.monitored /\ e.customFormatScore = 500}

EpisodeFileLists(states) ==
    {[j \in ItemIds |-> [qualityCutoffNotMet |-> f[j].qualityCutoffNotMet,
                         customFormatScore |-> f[j].customFormatScore,
                         episode_ok |-> f[j].episode_ok,
                         episode |-> [id |-> j, monitored |-> f[j].monitored,
                                      seasonNumber |-> f[j].seasonNumber]]] :
        f \in [ItemIds -> states]}

\* A series with at most one reason to be skipped.
SeriesStates ==
    {s \in [monitored : BOOLEAN, episodeFileCount : {0, MaxItems}, qualityProfileId : {1, 2}] :
        (IF s.monitored THEN 0 ELSE 1) + (IF s.episodeFileCount = 0 THEN 1 ELSE 0)
            + (IF s.qualityProfileId = 2 THEN 1 ELSE 0) <= 1}

EligibleSeriesStates ==
    {s \in SeriesStates : s.monitored /\ s.episodeFileCount > 0 /\ s.qualityProfileId = 1}

\* A library of one series with its episode files.
SeriesLists(series_states, file_states) ==
    {<<[id |-> 1, monitored |-> s.monitored, episodeFileCount |-> s.episodeFileCount,
        qualityProfileId |-> s.qualityProfileId, episode_files |-> files]>> :
        s \in series_states, files \in EpisodeFileLists(file_states)}

Response(conn, queue, profiles, fetched, movies, series) ==
    [conn |-> conn, queue |-> queue, profiles |-> profiles, fetched |-> fetched,
     movies |-> movies, series |-> series]

NoResponse == Response(FALSE, 0, NoProfiles, FALSE, <<>>, <<>>)

\* No instance is being processed: the locals of a loop iteration are unset.
NoConfig == Config("none", 0, 0, 0, None, "episode")

\* A library in which every item has not met its quality cutoff.
UnmetMovies ==
    [j \in ItemIds |-> [id |-> j, monitored |-> TRUE, hasFile |-> TRUE, qualityProfileId |-> 1,
                        movieFile |-> [ok |-> TRUE, qualityCutoffNotMet |-> TRUE,
                                       customFormatScore |-> 500]]]

UnmetSeries ==
    <<[id |-> 1, monitored |-> TRUE, episodeFileCount |-> MaxItems, qualityProfileId |-> 1,
       episode_files |->
           [j \in ItemIds |-> [qualityCutoffNotMet |-> TRUE, customFormatScore |-> 500,
                               episode_ok |-> TRUE,
                               episode |-> [id |-> j, monitored |-> TRUE, seasonNumber |-> 1]]]]>>

\* The answers in which one call of the scan fails, or the queue is not empty.
Troubled(movies, series) ==
    {Response(FALSE, 0, ProfileDetails, TRUE, movies, series),
     Response(TRUE, 1, ProfileDetails, TRUE, movies, series),
     Response(TRUE, 0, NoProfiles, TRUE, movies, series),
     Response(TRUE, 0, ProfileDetails, FALSE, movies, series)}

RadarrResponses(states) ==
    {Response(TRUE, 0, ProfileDetails, TRUE, movies, <<>>) : movies \in MovieLists(states)}
    \cup Troubled(UnmetMovies, <<>>)

SonarrResponses(series_states, file_states) ==
    {Response(TRUE, 0, ProfileDetails, TRUE, <<>>, series) :
        series \in SeriesLists(series_states, file_states)}
    \cup Troubled(<<>>, UnmetSeries)
    \cup {Response(TRUE, 0, ProfileDetails, TRUE, <<>>,
                   <<[UnmetSeries[1] EXCEPT !.episode_files = <<>>]>>)}

\* Nothing read from the environment, no profile list asked for, no search sent.
NoEnv == [name \in {} |-> ""]

NoAnswer == [ok |-> FALSE, profiles |-> <<>>]

NoDetails == [raised |-> FALSE, details |-> [p \in {} |-> <<>>]]

NoSearches == [run |-> EmptyHistory, saved |-> EmptyHistory]

\* Observer: the keys a posted command has searched, item keys and, for a
\* SeasonSearch, the season key of its pair.
KeysOf(command, items, service_type) ==
    IF command.name = "SeasonSearch"
    THEN {SeasonKey(service_type, command.seriesId, command.seasonNumber)}
         \cup {ItemKey(service_type, items[j].id) :
                  j \in {a \in 1..Len(items) :
                            /\ items[a].seriesId = command.seriesId
                            /\ items[a].seasonNumber = command.seasonNumber}}
    ELSE {ItemKey(service_type, command.ids[j]) : j \in 1..Len(command.ids)}

\* Observer: the record after the keys were searched at time t.
NoteSearched(record, keys, t) ==
    [record EXCEPT !.run = [k \in DOMAIN record.run \cup keys |->
                                IF k \in keys THEN t ELSE record.run[k]]]

\* Observer: the record after save_history ended with the outcome.
NoteSaved(record, outcome) ==
    CASE outcome = "written" ->
             [record EXCEPT !.saved = [k \in DOMAIN record.saved \cup DOMAIN record.run |->
                                          IF k \in DOMAIN record.run THEN record.run[k]
                                          ELSE record.saved[k]]]
      [] outcome = "unchanged" -> record
      [] OTHER -> [record EXCEPT !.saved = EmptyHistory]

(***************************************************************************)
(* The calls of the unit tests: get_sonarr_upgradeables,                   *)
(* get_radarr_upgradeables and update_history on their own.                *)
(***************************************************************************)
UnitKeys ==
    {ItemKey(st, id) : st \in {"radarr", "sonarr"}, id \in ItemIds}
    \cup {SeasonKey("sonarr", 1, sn) : sn \in Seasons}

UnitHistories ==
    {EmptyHistory} \cup {DictSet(EmptyHistory, k, t) : k \in UnitKeys, t \in Times}

UnitConfigs(service_type) ==
    {Config(service_type, 0, 0, maxsize, 1, "episode")}

SearchedItems ==
    {[id |-> id, type |-> "movie", seriesId |-> None, seasonNumber |-> None,
      reason |-> CutoffReason, service |-> "radarr0", service_type |-> "radarr",
      search_mode |-> "absent"] : id \in ItemIds}
    \cup {[id |-> id, type |-> "episode", seriesId |-> 1, seasonNumber |-> sn,
           reason |-> CutoffReason, service |-> "sonarr0", service_type |-> "sonarr",
           search_mode |-> m] : id \in ItemIds, sn \in Seasons, m \in {"episode", "season"}}

SearchedItemLists ==
    {<<a>> : a \in SearchedItems} \cup {<<a, b>> : a, b \in SearchedItems}

UnitInit ==
    /\ now = LastTime
    /\ disk = NoFile
    /\ dry_run = FALSE
    /\ cooldown_seconds = DaySeconds
    /\ max_upgrades = 0
    /\ all_configs = <<>>
    /\ search_history \in UnitHistories
    /\ remaining_global_upgrades = 0
    /\ i = 1
    /\ config = NoConfig
    /\ api = NoResponse
    /\ cutoff_unmet_items = <<>>
    /\ cf_upgradeable_items = <<>>
    /\ cutoff_selected = <<>>
    /\ cf_selected = <<>>
    /\ items_to_search = <<>>
    /\ pending = <<>>
    /\ posted = <<>>
    /\ saves = 0
    /\ selected_total = 0
    /\ dispatched = NoSearches
    /\ env = NoEnv
    /\ qualityprofile = NoAnswer
    /\ profile_details = NoDetails
    /\ pc = "unit"

UnitGetRadarr ==
    /\ UNCHANGED <<selected_total, dispatched, env, qualityprofile, profile_details>>
    /\ pc = "unit"
    /\ \E cfg \in UnitConfigs("radarr"), response \in RadarrResponses(MovieStates) :
          LET lists == get_radarr_upgradeables(cfg, response, search_history, now,
                                               cooldown_seconds)
          IN  /\ config' = cfg
              /\ api' = response
              /\ cutoff_unmet_items' = lists.cutoff_unmet
              /\ cf_upgradeable_items' = lists.cf_upgradeable
    /\ pc' = "scanned"
    /\ UNCHANGED <<now, disk, dry_run, cooldown_seconds, max_upgrades, all_configs,
                   search_history, remaining_global_upgrades, i, cutoff_selected,
                   cf_selected, items_to_search, pending, posted, saves>>

UnitGetSonarr ==
    /\ UNCHANGED <<selected_total, dispatched, env, qualityprofile, profile_details>>
    /\ pc = "unit"
    /\ \E cfg \in UnitConfigs("sonarr"),
          response \in SonarrResponses(SeriesStates, EpisodeFileStates) :
          LET lists == get_sonarr_upgradeables(cfg, response, search_history, now,
                                               cooldown_seconds)
          IN  /\ config' = cfg
              /\ api' = response
              /\ cutoff_unmet_items' = lists.cutoff_unmet
              /\ cf_upgradeable_items' = lists.cf_upgradeable
    /\ pc' = "scanned"
    /\ UNCHANGED <<now, disk, dry_run, cooldown_seconds, max_upgrades, all_configs,
                   search_history, remaining_global_upgrades, i, cutoff_selected,
                   cf_selected, items_to_search, pending, posted, saves>>

UnitUpdateHistory ==
    /\ UNCHANGED <<selected_total, dispatched, env, qualityprofile, profile_details>>
    /\ pc = "unit"
    /\ \E items \in SearchedItemLists :
          /\ items_to_search' = items
          /\ search_history' = update_history(items, search_history, now)
    /\ pc' = "updated"
    /\ UNCHANGED <<now, disk, dry_run, cooldown_seconds, max_upgrades, all_configs,
                   remaining_global_upgrades, i, config, api, cutoff_unmet_items,
                   cf_upgradeable_items, cutoff_selected, cf_selected, pending, posted, saves>>

\* update_history once more, with the same items at the same time.
UnitUpdateHistoryAgain ==
    /\ pc = "updated"
    /\ search_history' = update_history(items_to_search, search_history, now)
    /\ pc' = "updated_twice"
    /\ UNCHANGED <<now, disk, dry_run, cooldown_seconds, max_upgrades, all_configs,
                   remaining_global_upgrades, i, config, api, cutoff_unmet_items,
                   cf_upgradeable_items, cutoff_selected, cf_selected, items_to_search,
                   pending, posted, saves, selected_total, dispatched, env, qualityprofile,
                   profile_details>>

UnitNext == UnitGetRadarr \/ UnitGetSonarr \/ UnitUpdateHistory \/ UnitUpdateHistoryAgain

SpecUnit == UnitInit /\ [][UnitNext]_vars

(***************************************************************************)
(* main: one run of the script.                                            *)
(***************************************************************************)
Budgets == (0..MaxBudget) \cup {maxsize}

\* The instance lists load_configs("RADARR") + load_configs("SONARR") may give:
\* two instances, Radarr before Sonarr; the first one has a queue limit, the
\* second one neither a queue limit nor a finite cap.
InstanceTypes ==
    {<<"radarr", 0, "radarr", 1, "episode">>,
     <<"radarr", 0, "sonarr", 0, "episode">>, <<"radarr", 0, "sonarr", 0, "season">>,
     <<"sonarr", 0, "sonarr", 1, "episode">>, <<"sonarr", 0, "sonarr", 1, "season">>}

ConfigLists ==
    {<<Config(t[1], t[2], c1, c2, 1, t[5]), Config(t[3], t[4], maxsize, maxsize, None, t[5])>> :
        t \in InstanceTypes, c1 \in CapValues, c2 \in CapValues}

\* HISTORY_FILE before the run: missing, or left by an earlier run.
RunDisks ==
    {NoFile}
    \cup {[ok |-> TRUE, raises |-> FALSE,
           data |-> DictSet(DictSet(EmptyHistory, ItemKey("radarr", 1), t),
                            ItemKey("sonarr", 1), t)] :
            t \in {LastTime - DaySeconds, LastTime - HalfDay}}

RunResponses(service_type) ==
    IF service_type = "radarr"
    THEN RadarrResponses(EligibleMovieStates)
    ELSE SonarrResponses(EligibleSeriesStates, EligibleEpisodeFileStates)

Init ==
    /\ now = LastTime
    /\ disk \in RunDisks
    /\ dry_run \in BOOLEAN
    /\ cooldown_seconds = 1 * DaySeconds
    /\ max_upgrades \in Budgets
    /\ all_configs \in ConfigLists
    /\ search_history = EmptyHistory
    /\ remaining_global_upgrades = 0
    /\ i = 1
    /\ config = NoConfig
    /\ api = NoResponse
    /\ cutoff_unmet_items = <<>>
    /\ cf_upgradeable_items = <<>>
    /\ cutoff_selected = <<>>
    /\ cf_selected = <<>>
    /\ items_to_search = <<>>
    /\ pending = <<>>
    /\ posted = <<>>
    /\ saves = 0
    /\ selected_total = 0
    /\ dispatched = NoSearches
    /\ env = NoEnv
    /\ qualityprofile = NoAnswer
    /\ profile_details = NoDetails
    /\ pc = "start"

\* The configs are kept whatever MAX_UPGRADES is.
configs_to_process_uncleared(configs, max) == configs

\* if max_upgrades == 0: all_configs = []
configs_to_process(configs, max) == IF max = 0 THEN <<>> ELSE configs

\* Lines 800-807: load the history, clear the configs when MAX_UPGRADES is 0.
\* An exception load_history does not catch ends the run.
LoadHistory ==
    /\ UNCHANGED <<selected_total, dispatched, env, qualityprofile, profile_details>>
    /\ pc = "start"
    /\ IF load_history_raises(disk)
       THEN /\ pc' = "crashed"
            /\ UNCHANGED <<search_history, all_configs, remaining_global_upgrades, i>>
       ELSE /\ search_history' = load_history(disk, now, cooldown_seconds)
            /\ all_configs' = configs_to_process(all_configs, max_upgrades)
            /\ remaining_global_upgrades' = max_upgrades
            /\ i' = 1
            /\ pc' = "loop"
    /\ UNCHANGED <<now, disk, dry_run, cooldown_seconds, max_upgrades, config, api,
                   cutoff_unmet_items, cf_upgradeable_items, cutoff_selected, cf_selected,
                   items_to_search, pending, posted, saves>>

\* Lines 809-814: the next instance is scanned.
Scan ==
    /\ UNCHANGED <<selected_total, dispatched, env, qualityprofile, profile_details>>
    /\ pc = "loop"
    /\ i <= Len(all_configs)
    /\ \E response \in RunResponses(all_configs[i].service_type) :
          LET cfg == all_configs[i]
              lists == IF cfg.service_type = "radarr"
                       THEN get_radarr_upgradeables(cfg, response, search_history, now,
                                                    cooldown_seconds)
                       ELSE get_sonarr_upgradeables(cfg, response, search_history, now,
                                                    cooldown_seconds)
          IN  /\ config' = cfg
              /\ api' = response
              /\ cutoff_unmet_items' = lists.cutoff_unmet
              /\ cf_upgradeable_items' = lists.cf_upgradeable
    /\ cutoff_selected' = <<>>
    /\ cf_selected' = <<>>
    /\ items_to_search' = <<>>
    /\ pc' = "select"
    /\ UNCHANGED <<now, disk, dry_run, cooldown_seconds, max_upgrades, all_configs,
                   search_history, remaining_global_upgrades, i, pending, posted, saves>>

\* Lines 816-845: both tiers are sampled against the budget; with nothing
\* selected the loop continues (the locals of the iteration are dropped),
\* otherwise the items are tagged for dispatch.
Select ==
    /\ pc = "select"
    /\ \E first \in Sample(cutoff_unmet_items,
                           num_to_select_cutoff(config, cutoff_unmet_items,
                                                remaining_global_upgrades)) :
          LET after_cutoff == remaining_global_upgrades - Len(first)
          IN  \E second \in IF after_cutoff > 0
                            THEN Sample(cf_upgradeable_items,
                                        num_to_select_cf(config, cf_upgradeable_items,
                                                         after_cutoff))
                            ELSE {<<>>} :
                 /\ remaining_global_upgrades' = after_cutoff - Len(second)
                 /\ selected_total' = selected_total + Len(first) + Len(second)
                 /\ IF first \o second = <<>>
                    THEN /\ i' = i + 1
                         /\ pc' = "loop"
                         /\ config' = NoConfig
                         /\ api' = NoResponse
                         /\ cutoff_unmet_items' = <<>>
                         /\ cf_upgradeable_items' = <<>>
                         /\ cutoff_selected' = <<>>
                         /\ cf_selected' = <<>>
                         /\ items_to_search' = <<>>
                    ELSE /\ i' = i
                         /\ pc' = "trigger"
                         /\ cutoff_selected' = first
                         /\ cf_selected' = second
                         /\ items_to_search' = AttachAll(first \o second, config)
                         /\ UNCHANGED <<config, api, cutoff_unmet_items,
                                        cf_upgradeable_items>>
    /\ UNCHANGED <<now, disk, dry_run, cooldown_seconds, max_upgrades, all_configs,
                   search_history, pending, posted, saves, dispatched, env, qualityprofile,
                   profile_details>>

\* trigger_grouped_searches, lines 563-578: group, then update the history.
Trigger ==
    /\ UNCHANGED <<selected_total, dispatched, env, qualityprofile, profile_details>>
    /\ pc = "trigger"
    /\ search_history' = IF dry_run THEN search_history
                         ELSE update_history(items_to_search, search_history, now)
    /\ pending' = GroupedCommands(items_to_search)
    /\ pc' = "dispatch"
    /\ UNCHANGED <<now, disk, dry_run, cooldown_seconds, max_upgrades, all_configs,
                   remaining_global_upgrades, i, config, api, cutoff_unmet_items,
                   cf_upgradeable_items, cutoff_selected, cf_selected, items_to_search,
                   posted, saves>>

\* trigger_grouped_searches, lines 580-634: the next command is posted, or
\* only logged in a dry run.
Dispatch ==
    /\ UNCHANGED <<selected_total, env, qualityprofile, profile_details>>
    /\ pc = "dispatch"
    /\ pending # <<>>
    /\ dispatched' = IF dry_run THEN dispatched
                     ELSE NoteSearched(dispatched,
                                       KeysOf(Head(pending), items_to_search,
                                              config.service_type), now)
    /\ posted' = IF Head(pending).name = "SeasonSearch"
                 THEN season_search(posted, Head(pending), dry_run)
                 ELSE trigger_search(posted, Head(pending), dry_run)
    /\ pending' = Tail(pending)
    /\ UNCHANGED <<now, disk, dry_run, cooldown_seconds, max_upgrades, all_configs,
                   search_history, remaining_global_upgrades, i, config, api,
                   cutoff_unmet_items, cf_upgradeable_items, cutoff_selected, cf_selected,
                   items_to_search, saves, pc>>

\* The loop goes on whatever is left of the budget.
limit_reached_never(remaining) == FALSE

\* if remaining_global_upgrades <= 0: ... break
limit_reached(remaining) == remaining <= 0

\* Lines 849-858: stop when the global budget is used up, else go on.
AfterTrigger ==
    /\ UNCHANGED <<selected_total, dispatched, env, qualityprofile, profile_details>>
    /\ pc = "dispatch"
    /\ pending = <<>>
    /\ IF limit_reached(remaining_global_upgrades)
       THEN pc' = "finalize" /\ i' = i
       ELSE pc' = "loop" /\ i' = i + 1
    /\ config' = NoConfig
    /\ api' = NoResponse
    /\ cutoff_unmet_items' = <<>>
    /\ cf_upgradeable_items' = <<>>
    /\ cutoff_selected' = <<>>
    /\ cf_selected' = <<>>
    /\ items_to_search' = <<>>
    /\ UNCHANGED <<now, disk, dry_run, cooldown_seconds, max_upgrades, all_configs,
                   search_history, remaining_global_upgrades, pending, posted, saves>>

\* The for loop has no instance left.
LoopEnd ==
    /\ UNCHANGED <<selected_total, dispatched, env, qualityprofile, profile_details>>
    /\ pc = "loop"
    /\ i > Len(all_configs)
    /\ pc' = "finalize"
    /\ UNCHANGED <<now, disk, dry_run, cooldown_seconds, max_upgrades, all_configs,
                   search_history, remaining_global_upgrades, i, config, api,
                   cutoff_unmet_items, cf_upgradeable_items, cutoff_selected, cf_selected,
                   items_to_search, pending, posted, saves>>

\* Lines 860-862: the history is saved unless the run is dry.
Finalize ==
    /\ UNCHANGED <<selected_total, env, qualityprofile, profile_details>>
    /\ pc = "finalize"
    /\ IF dry_run
       THEN UNCHANGED <<disk, saves, dispatched>>
       ELSE /\ \E outcome \in SaveOutcomes :
                  /\ disk' = save_history(disk, search_history, outcome)
                  /\ dispatched' = NoteSaved(dispatched, outcome)
            /\ saves' = saves + 1
    /\ pc' = "done"
    /\ UNCHANGED <<now, dry_run, cooldown_seconds, max_upgrades, all_configs,
                   search_history, remaining_global_upgrades, i, config, api,
                   cutoff_unmet_items, cf_upgradeable_items, cutoff_selected, cf_selected,
                   items_to_search, pending, posted>>

Next ==
    \/ LoadHistory
    \/ Scan
    \/ Select
    \/ Trigger
    \/ Dispatch
    \/ AfterTrigger
    \/ LoopEnd
    \/ Finalize

Spec == Init /\ [][Next]_vars

(***************************************************************************)
(* One run of the script in which an exception may leave main, which       *)
(* catches none: the history file may be one whose reading raises, and the *)
(* profile list of an instance may be one on which                         *)
(* get_quality_profile_details raises KeyError.                            *)
(***************************************************************************)
RaisingInit ==
    /\ now = LastTime
    /\ disk \in RunDisks \cup {UnreadableFile}
    /\ dry_run \in BOOLEAN
    /\ cooldown_seconds = 1 * DaySeconds
    /\ max_upgrades \in Budgets
    /\ all_configs \in ConfigLists
    /\ search_history = EmptyHistory
    /\ remaining_global_upgrades = 0
    /\ i = 1
    /\ config = NoConfig
    /\ api = NoResponse
    /\ cutoff_unmet_items = <<>>
    /\ cf_upgradeable_items = <<>>
    /\ cutoff_selected = <<>>
    /\ cf_selected = <<>>
    /\ items_to_search = <<>>
    /\ pending = <<>>
    /\ posted = <<>>
    /\ saves = 0
    /\ selected_total = 0
    /\ dispatched = NoSearches
    /\ env = NoEnv
    /\ qualityprofile = NoAnswer
    /\ profile_details = NoDetails
    /\ pc = "start"

\* The answers of _get("qualityprofile") with one profile of one item on
\* which get_quality_profile_details raises.
RaisingAnswers ==
    {[ok |-> TRUE,
      profiles |-> <<[id |-> id, cutoff |-> None, cutoffFormatScore |-> 1000,
                      items |-> <<[has_quality |-> FALSE,
                                   quality |-> [id |-> None, name |-> ""]]>>]>>] :
        id \in {1, 2}}

\* Lines 809-814 with 208-220 (345-357): the instance is reached, its queue
\* is empty, and get_quality_profile_details raises; the exception passes
\* through get_*_upgradeables and main.
ScanRaises ==
    /\ pc = "loop"
    /\ i <= Len(all_configs)
    /\ \E answer \in RaisingAnswers :
          /\ get_quality_profile_details(answer).raised
          /\ qualityprofile' = answer
          /\ profile_details' = get_quality_profile_details(answer)
    /\ config' = all_configs[i]
    /\ api' = Response(TRUE, 0, NoProfiles, FALSE, <<>>, <<>>)
    /\ pc' = "crashed"
    /\ UNCHANGED <<now, disk, dry_run, cooldown_seconds, max_upgrades, all_configs,
                   search_history, remaining_global_upgrades, i, cutoff_unmet_items,
                   cf_upgradeable_items, cutoff_selected, cf_selected, items_to_search,
                   pending, posted, saves, selected_total, dispatched, env>>

RaisingNext == Next \/ ScanRaises

SpecRaising == RaisingInit /\ [][RaisingNext]_vars

(***************************************************************************)
(* The functions on their own: load_configs (followed by the selection of  *)
(* main for its first instance), load_history and                          *)
(* get_quality_profile_details, each on inputs drawn at the start.         *)
(***************************************************************************)
\* What a variable of the environment may hold: decimal integers, a string
\* that is no integer; or it is not set.
IntStrings == {ToString(n) : n \in EnvInts}

Unset == "<unset>"

LimitSettings == IntStrings \cup {"abc", Unset}

ModeSettings == {"season", "SEASON", "bogus", Unset}

\* The environment of one instance, without what is not set.
InstanceEnv(prefix, url, api_key, num, num_cutoff, queue, mode) ==
    LET all == [name \in {prefix \o "_URL", prefix \o "_API_KEY",
                          prefix \o "_NUM_TO_UPGRADE",
                          prefix \o "_NUM_CUTOFF_UNMET_TO_UPGRADE",
                          prefix \o "_QUEUE_SIZE_LIMIT", prefix \o "_SEARCH_MODE"} |->
                   CASE name = prefix \o "_URL" -> url
                     [] name = prefix \o "_API_KEY" -> api_key
                     [] name = prefix \o "_NUM_TO_UPGRADE" -> num
                     [] name = prefix \o "_NUM_CUTOFF_UNMET_TO_UPGRADE" -> num_cutoff
                     [] name = prefix \o "_QUEUE_SIZE_LIMIT" -> queue
                     [] OTHER -> mode]
    IN  [name \in {x \in DOMAIN all : all[x] # Unset} |-> all[name]]

\* The union of two environments with different names.
Merge(e1, e2) == [name \in DOMAIN e1 \cup DOMAIN e2 |->
                     IF name \in DOMAIN e1 THEN e1[name] ELSE e2[name]]

\* A first instance with any settings, alone or followed by a second
\* instance with none, complete or without a usable API key.
ServiceEnvs(service) ==
    UNION {{first,
            Merge(first, InstanceEnv(service \o "1", "http://b", "k", Unset, Unset, Unset, Unset)),
            Merge(first, InstanceEnv(service \o "1", "http://b", "", Unset, Unset, Unset, Unset))} :
           first \in {InstanceEnv(service \o "0", "http://a", "k", num, num_cutoff, queue, mode) :
                         num \in LimitSettings, num_cutoff \in LimitSettings,
                         queue \in LimitSettings, mode \in ModeSettings}}

Envs == ServiceEnvs("RADARR") \cup ServiceEnvs("SONARR")

\* A library with one movie below its quality cutoff, the others below the
\* cutoff score only.
MixedMovies ==
    [j \in ItemIds |-> [UnmetMovies[j] EXCEPT !.movieFile.qualityCutoffNotMet = (j = 1)]]

\* The history files: missing or no JSON, unreadable, or a mapping of up to
\* three keys.
FnKeys == {"radarr-1", "sonarr-1", "sonarr-2"}

FnHistories ==
    UNION {[keys -> Times] : keys \in SUBSET FnKeys}

FnDisks ==
    {NoFile, UnreadableFile}
    \cup {[ok |-> TRUE, raises |-> FALSE, data |-> h] : h \in FnHistories}

\* HISTORY_COOLDOWN_DAYS of 0, 1 and 2
FnCooldowns == {0, DaySeconds, 2 * DaySeconds}

\* Profile items: two qualities, a second name under the id of the first,
\* and an item without a quality.
ProfileItems ==
    {[has_quality |-> TRUE, quality |-> [id |-> 1, name |-> "SD"]],
     [has_quality |-> TRUE, quality |-> [id |-> 1, name |-> "DVD"]],
     [has_quality |-> TRUE, quality |-> [id |-> 2, name |-> "HD"]],
     [has_quality |-> FALSE, quality |-> [id |-> None, name |-> ""]]}

ProfileItemLists ==
    {<<>>} \cup {<<a>> : a \in ProfileItems} \cup {<<a, b>> : a, b \in ProfileItems}

Profiles ==
    {[id |-> id, cutoff |-> cutoff,
      cutoffFormatScore |-> IF id = 1 THEN 1000 ELSE None, items |-> items] :
        id \in {1, 2}, cutoff \in {None, 1, 2}, items \in ProfileItemLists}

\* The answers of _get("qualityprofile"): None, an empty list, one profile,
\* or one profile followed by a plain one.
ProfileAnswers ==
    {NoAnswer, [ok |-> TRUE, profiles |-> <<>>]}
    \cup {[ok |-> TRUE, profiles |-> <<p>>] : p \in Profiles}
    \cup {[ok |-> TRUE,
           profiles |-> <<p, [id |-> id, cutoff |-> 2, cutoffFormatScore |-> None,
                              items |-> <<[has_quality |-> TRUE,
                                           quality |-> [id |-> 2, name |-> "HD"]]>>]>>] :
            p \in Profiles, id \in {1, 2}}

FnInit ==
    /\ dry_run = FALSE
    /\ max_upgrades = maxsize
    /\ all_configs = <<>>
    /\ search_history = EmptyHistory
    /\ remaining_global_upgrades = 0
    /\ i = 1
    /\ config = NoConfig
    /\ api = NoResponse
    /\ cutoff_unmet_items = <<>>
    /\ cf_upgradeable_items = <<>>
    /\ cutoff_selected = <<>>
    /\ cf_selected = <<>>
    /\ items_to_search = <<>>
    /\ pending = <<>>
    /\ posted = <<>>
    /\ saves = 0
    /\ selected_total = 0
    /\ dispatched = NoSearches
    /\ profile_details = NoDetails
    /\ \/ /\ pc = "load_configs"
          /\ env \in Envs
          /\ now = LastTime
          /\ cooldown_seconds = DaySeconds
          /\ disk = NoFile
          /\ qualityprofile = NoAnswer
       \/ /\ pc = "load_history"
          /\ disk \in FnDisks
          /\ now \in Times
          /\ cooldown_seconds \in FnCooldowns
          /\ env = NoEnv
          /\ qualityprofile = NoAnswer
       \/ /\ pc = "get_quality_profile_details"
          /\ qualityprofile \in ProfileAnswers
          /\ now = LastTime
          /\ cooldown_seconds = DaySeconds
          /\ disk = NoFile
          /\ env = NoEnv

\* all_configs = load_configs("RADARR") + load_configs("SONARR")
FnLoadConfigs ==
    /\ pc = "load_configs"
    /\ all_configs' = load_configs(env, "RADARR") \o load_configs(env, "SONARR")
    /\ remaining_global_upgrades' = max_upgrades
    /\ pc' = "loop"
    /\ UNCHANGED <<now, disk, dry_run, cooldown_seconds, max_upgrades, search_history, i,
                   config, api, cutoff_unmet_items, cf_upgradeable_items, cutoff_selected,
                   cf_selected, items_to_search, pending, posted, saves, selected_total,
                   dispatched, env, qualityprofile, profile_details>>

\* The scan of the first instance, on a library with candidates of both tiers.
FnScan ==
    /\ pc = "loop"
    /\ i = 1
    /\ LET cfg == all_configs[i]
           response == IF cfg.service_type = "radarr"
                       THEN Response(TRUE, 0, ProfileDetails, TRUE, MixedMovies, <<>>)
                       ELSE Response(TRUE, 0, ProfileDetails, TRUE, <<>>, UnmetSeries)
           lists == IF cfg.service_type = "radarr"
                    THEN get_radarr_upgradeables(cfg, response, search_history, now,
                                                 cooldown_seconds)
                    ELSE get_sonarr_upgradeables(cfg, response, search_history, now,
                                                 cooldown_seconds)
       IN  /\ config' = cfg
           /\ api' = response
           /\ cutoff_unmet_items' = lists.cutoff_unmet
           /\ cf_upgradeable_items' = lists.cf_upgradeable
    /\ pc' = "select"
    /\ UNCHANGED <<now, disk, dry_run, cooldown_seconds, max_upgrades, all_configs,
                   search_history, remaining_global_upgrades, i, cutoff_selected, cf_selected,
                   items_to_search, pending, posted, saves, selected_total, dispatched, env,
                   qualityprofile, profile_details>>

\* search_history = load_history(cooldown_seconds)
FnLoadHistory ==
    /\ pc = "load_history"
    /\ IF load_history_raises(disk)
       THEN pc' = "crashed" /\ UNCHANGED search_history
       ELSE /\ search_history' = load_history(disk, now, cooldown_seconds)
            /\ pc' = "history"
    /\ UNCHANGED <<now, disk, dry_run, cooldown_seconds, max_upgrades, all_configs,
                   remaining_global_upgrades, i, config, api, cutoff_unmet_items,
                   cf_upgradeable_items, cutoff_selected, cf_selected, items_to_search,
                   pending, posted, saves, selected_total, dispatched, env, qualityprofile,
                   profile_details>>

\* quality_profile_details = service.get_quality_profile_details()
FnGetDetails ==
    /\ pc = "get_quality_profile_details"
    /\ profile_details' = get_quality_profile_details(qualityprofile)
    /\ pc' = "details"
    /\ UNCHANGED <<now, disk, dry_run, cooldown_seconds, max_upgrades, all_configs,
                   search_history, remaining_global_upgrades, i, config, api,
                   cutoff_unmet_items, cf_upgradeable_items, cutoff_selected, cf_selected,
                   items_to_search, pending, posted, saves, selected_total, dispatched, env,
                   qualityprofile>>

FnNext == FnLoadConfigs \/ FnScan \/ Select \/ FnLoadHistory \/ FnGetDetails

SpecFn == FnInit /\ [][FnNext]_vars

(***************************************************************************)
(* Successive runs of the script (cron), over one history file.  The clock *)
(* starts at the first half day; each later run starts at a later time.    *)
(***************************************************************************)
FirstTime == HalfDay

RunsBudgets == {1, maxsize}

\* One instance, no queue limit: Radarr, or Sonarr in either search mode.
RunsConfigLists ==
    {<<Config(t[1], 0, c1, c2, None, t[2])>> :
        t \in {<<"radarr", "episode">>, <<"sonarr", "episode">>, <<"sonarr", "season">>},
        c1 \in {1, maxsize}, c2 \in {0, maxsize}}

RunsInit ==
    /\ now = FirstTime
    /\ disk = NoFile
    /\ dry_run \in BOOLEAN
    /\ cooldown_seconds = 1 * DaySeconds
    /\ max_upgrades \in RunsBudgets
    /\ all_configs \in RunsConfigLists
    /\ search_history = EmptyHistory
    /\ remaining_global_upgrades = 0
    /\ i = 1
    /\ config = NoConfig
    /\ api = NoResponse
    /\ cutoff_unmet_items = <<>>
    /\ cf_upgradeable_items = <<>>
    /\ cutoff_selected = <<>>
    /\ cf_selected = <<>>
    /\ items_to_search = <<>>
    /\ pending = <<>>
    /\ posted = <<>>
    /\ saves = 0
    /\ selected_total = 0
    /\ dispatched = NoSearches
    /\ env = NoEnv
    /\ qualityprofile = NoAnswer
    /\ profile_details = NoDetails
    /\ pc = "start"

\* The process has ended; cron starts the script again at a later time.  Only
\* the history file is carried over; DRY_RUN is read anew.
NextRun ==
    /\ pc = "done"
    /\ \E t \in {u \in Times : u > now} : now' = t
    /\ dry_run' \in BOOLEAN
    /\ search_history' = EmptyHistory
    /\ remaining_global_upgrades' = 0
    /\ i' = 1
    /\ posted' = <<>>
    /\ saves' = 0
    /\ selected_total' = 0
    /\ dispatched' = [dispatched EXCEPT !.run = EmptyHistory]
    /\ pc' = "start"
    /\ UNCHANGED <<disk, cooldown_seconds, max_upgrades, all_configs, config, api,
                   cutoff_unmet_items, cf_upgradeable_items, cutoff_selected, cf_selected,
                   items_to_search, pending, env, qualityprofile, profile_details>>

RunsNext == Next \/ NextRun

SpecRuns == RunsInit /\ [][RunsNext]_vars

(***************************************************************************)
(* Vocabulary of the properties.                                           *)
(***************************************************************************)
IdsIn(items) == {items[j].id : j \in 1..Len(items)}

Occurrences(items, id) == Cardinality({j \in 1..Len(items) : items[j].id = id})

\* The scan got past the connection check, the queue gate and both fetches.
ScanCompleted ==
    /\ api.conn
    /\ ~(config.queue_size_limit # None /\ api.queue >= config.queue_size_limit)
    /\ DOMAIN api.profiles # {}
    /\ api.fetched

\* isCoolingDown(key, now, cooldownSeconds) of spec.md 4.3, on the current history.
CoolingDown(key) ==
    key \in DOMAIN search_history /\ now - search_history[key] < cooldown_seconds

\* The episode files the scan was given, each with its series.
ScannedEpisodeFiles ==
    UNION {{<<api.series[a], api.series[a].episode_files[b]>> :
               b \in 1..Len(api.series[a].episode_files)} : a \in 1..Len(api.series)}

SeriesCutoffScore(series) ==
    IF series.qualityProfileId \in DOMAIN api.profiles
    THEN api.profiles[series.qualityProfileId] ELSE None

SonarrScanned == pc = "scanned" /\ config.service_type = "sonarr" /\ ScanCompleted

RadarrScanned == pc = "scanned" /\ config.service_type = "radarr" /\ ScanCompleted

(***************************************************************************)
(* C1: every monitored episode of a series with files and a profile cutoff *)
(* score, not cooling down, whose file has met the quality cutoff and      *)
(* scores below the cutoff score, is once in the tier 2 list, with the     *)
(* reason "CF score {current} < cutoff {cutoff}", and not in tier 1.       *)
(***************************************************************************)
C1_ScoreBelowCutoffIsTier2 ==
    SonarrScanned =>
        \A sf \in ScannedEpisodeFiles :
            LET series == sf[1]
                file == sf[2]
                cutoff == SeriesCutoffScore(series)
            IN  (/\ series.monitored
                 /\ file.episode_ok
                 /\ file.episode.monitored
                 /\ series.episodeFileCount > 0
                 /\ cutoff # None
                 /\ ~CoolingDown("sonarr-" \o ToString(file.episode.id))
                 /\ ~CoolingDown(SeasonKey("sonarr", series.id, file.episode.seasonNumber))
                 /\ ~file.qualityCutoffNotMet
                 /\ file.customFormatScore < cutoff)
                => /\ Occurrences(cf_upgradeable_items, file.episode.id) = 1
                   /\ \A j \in 1..Len(cf_upgradeable_items) :
                         cf_upgradeable_items[j].id = file.episode.id =>
                             cf_upgradeable_items[j].reason =
                                 "CF score " \o ToString(file.customFormatScore)
                                     \o " < cutoff " \o ToString(cutoff)
                   /\ file.episode.id \notin IdsIn(cutoff_unmet_items)

(***************************************************************************)
(* C2: after a scan no item id is in both candidate lists, and an item     *)
(* whose file has qualityCutoffNotMet = true is not in the tier 2 list.    *)
(***************************************************************************)
C2_TiersExclusive ==
    pc = "scanned" =>
        /\ IdsIn(cutoff_unmet_items) \cap IdsIn(cf_upgradeable_items) = {}
        /\ \A j \in 1..Len(api.movies) :
              (api.movies[j].movieFile.ok /\ api.movies[j].movieFile.qualityCutoffNotMet)
              => api.movies[j].id \notin IdsIn(cf_upgradeable_items)
        /\ \A sf \in ScannedEpisodeFiles :
              (sf[2].episode_ok /\ sf[2].qualityCutoffNotMet)
              => sf[2].episode.id \notin IdsIn(cf_upgradeable_items)

(***************************************************************************)
(* C3: after update_history, the history holds the season key              *)
(* "<serviceType>-series-<seriesId>-season-<seasonNumber>" of every item   *)
(* whose search_mode is 'season'.                                          *)
(***************************************************************************)
C3_SeasonKeyRecorded ==
    pc = "updated" =>
        \A j \in 1..Len(items_to_search) :
            items_to_search[j].search_mode = "season"
            => SeasonKey(items_to_search[j].service_type, items_to_search[j].seriesId,
                         items_to_search[j].seasonNumber) \in DOMAIN search_history

(***************************************************************************)
(* C4: while the season key of a series and season is within the cooldown, *)
(* no episode of that series and season is in either candidate list.       *)
(***************************************************************************)
C4_SeasonCooldownExcludes ==
    SonarrScanned =>
        \A sf \in ScannedEpisodeFiles :
            (/\ sf[1].monitored
             /\ sf[2].episode_ok
             /\ CoolingDown(SeasonKey("sonarr", sf[1].id, sf[2].episode.seasonNumber)))
            => sf[2].episode.id \notin
                   IdsIn(cutoff_unmet_items) \cup IdsIn(cf_upgradeable_items)

(***************************************************************************)
(* C5: a movie or episode whose key "<serviceType>-<itemId>" is in the     *)
(* history with now - lastSearchedAt < cooldownSeconds is in neither       *)
(* candidate list of the scan.                                             *)
(***************************************************************************)
C5_ItemCooldownExcludes ==
    pc = "scanned" =>
        /\ \A j \in 1..Len(api.movies) :
              (config.service_type = "radarr"
               /\ CoolingDown("radarr-" \o ToString(api.movies[j].id)))
              => api.movies[j].id \notin
                     IdsIn(cutoff_unmet_items) \cup IdsIn(cf_upgradeable_items)
        /\ \A sf \in ScannedEpisodeFiles :
              (/\ config.service_type = "sonarr"
               /\ sf[2].episode_ok
               /\ CoolingDown("sonarr-" \o ToString(sf[2].episode.id)))
              => sf[2].episode.id \notin
                     IdsIn(cutoff_unmet_items) \cup IdsIn(cf_upgradeable_items)

\* Episode 1 was searched half a day ago and would otherwise be listed, as
\* episode 2 is: the scan lists episode 2 alone.
C5_Witness ==
    /\ SonarrScanned
    /\ "sonarr-1" \in DOMAIN search_history
    /\ search_history["sonarr-1"] = now - HalfDay
    /\ \E sf \in ScannedEpisodeFiles :
          /\ sf[1].episodeFileCount > 0 /\ SeriesCutoffScore(sf[1]) # None
          /\ \A b \in 1..2 :
                /\ sf[1].episode_files[b].episode_ok
                /\ sf[1].episode_files[b].episode.monitored
                /\ sf[1].episode_files[b].qualityCutoffNotMet
    /\ IdsIn(cutoff_unmet_items) = {2}

(***************************************************************************)
(* C6: for each processed instance exactly                                 *)
(* n1 = min(|tier 1|, tier1Cap, globalRemaining) tier 1 items are selected,*)
(* globalRemaining drops by n1 and then, only if it is still positive,     *)
(* exactly n2 = min(|tier 2|, tier2Cap, globalRemaining) tier 2 items are  *)
(* selected against the decremented budget.                                *)
(***************************************************************************)
Least(S) == CHOOSE x \in S : \A y \in S : x <= y

C6_AllocationCounts ==
    [][pc = "select" =>
          LET n1 == Least({Len(cutoff_unmet_items), config.num_cutoff_unmet_to_upgrade,
                           remaining_global_upgrades})
              left == remaining_global_upgrades - n1
              n2 == IF left > 0
                    THEN Least({Len(cf_upgradeable_items), config.num_to_upgrade, left})
                    ELSE 0
          IN  /\ remaining_global_upgrades' = left - n2
              /\ selected_total' = selected_total + n1 + n2
              /\ IF n1 + n2 = 0
                 THEN pc' = "loop"
                 ELSE /\ pc' = "trigger"
                      /\ Len(cutoff_selected') = n1
                      /\ Len(cf_selected') = n2
                      /\ Len(items_to_search') = n1 + n2
                      /\ \A j \in 1..n1 :
                            \E k \in 1..Len(cutoff_unmet_items) :
                                cutoff_selected'[j] = cutoff_unmet_items[k]
                      /\ \A j \in 1..n2 :
                            \E k \in 1..Len(cf_upgradeable_items) :
                                cf_selected'[j] = cf_upgradeable_items[k]]_vars

\* Budget 2, two tier 1 candidates under a cap of 1, two tier 2 candidates
\* without a cap: one item of each tier is selected.
C6_Witness ==
    /\ pc = "trigger"
    /\ i = 1
    /\ max_upgrades = 2
    /\ Len(cutoff_unmet_items) = 2
    /\ config.num_cutoff_unmet_to_upgrade = 1
    /\ Len(cutoff_selected) = 1
    /\ Len(cf_upgradeable_items) = 2
    /\ config.num_to_upgrade = maxsize
    /\ Len(cf_selected) = 1
    /\ remaining_global_upgrades = 0

(***************************************************************************)
(* C7: throughout a run globalRemaining is non-negative, never increases,  *)
(* and equals the global cap minus the number of items selected so far, so *)
(* the items selected in a run never exceed the global cap.                *)
(***************************************************************************)
C7_GlobalBudget ==
    /\ [](pc # "start" =>
             /\ remaining_global_upgrades >= 0
             /\ remaining_global_upgrades = max_upgrades - selected_total
             /\ selected_total <= max_upgrades)
    /\ [][pc # "start" => remaining_global_upgrades' <= remaining_global_upgrades]_vars

\* The second instance takes the last unit of a budget of 2.
C7_Witness ==
    /\ pc = "trigger"
    /\ i = 2
    /\ max_upgrades = 2
    /\ Len(items_to_search) = 1
    /\ selected_total = 2
    /\ remaining_global_upgrades = 0

(***************************************************************************)
(* C8: when a search command is posted, the history already holds the key  *)
(* "<serviceType>-<itemId>" of every item selected for the instance, with  *)
(* the timestamp of this run.                                              *)
(***************************************************************************)
C8_HistoryBeforeDispatch ==
    [][posted' # posted =>
          \A j \in 1..Len(items_to_search) :
              LET key == items_to_search[j].service_type \o "-"
                             \o ToString(items_to_search[j].id)
              IN  key \in DOMAIN search_history /\ search_history[key] = now]_vars

\* An EpisodeSearch for two episodes has been posted; both are in the history.
C8_Witness ==
    /\ ~dry_run
    /\ pc = "dispatch"
    /\ posted # <<>>
    /\ posted[Len(posted)].name = "EpisodeSearch"
    /\ posted[Len(posted)].ids = <<1, 2>>
    /\ {"sonarr-1", "sonarr-2"} \subseteq DOMAIN search_history
    /\ search_history["sonarr-1"] = now
    /\ search_history["sonarr-2"] = now

(***************************************************************************)
(* C9: in a dry run no command is posted, selection and grouping leave the *)
(* loaded history as it is, and the history file is not written.           *)
(***************************************************************************)
C9_DryRunNoEffects ==
    /\ [](dry_run => posted = <<>> /\ saves = 0)
    /\ [][dry_run => /\ disk' = disk
                     /\ (pc # "start" => search_history' = search_history)]_vars

\* A dry run that selected two items and ended.
C9_Witness ==
    /\ dry_run
    /\ pc = "done"
    /\ selected_total = 2
    /\ posted = <<>>
    /\ saves = 0

(***************************************************************************)
(* C10: in season mode one SeasonSearch is sent for each (seriesId,        *)
(* seasonNumber) pair that has a selected episode, however many selected   *)
(* episodes share it, and none for any other pair.                         *)
(***************************************************************************)
SeasonSearchesOf(commands, service, seriesId, seasonNumber) ==
    {j \in 1..Len(commands) :
        /\ commands[j].name = "SeasonSearch"
        /\ commands[j].service = service
        /\ commands[j].seriesId = seriesId
        /\ commands[j].seasonNumber = seasonNumber}

C10_OneSeasonSearchPerPair ==
    (~dry_run /\ pc = "dispatch" /\ config.service_type = "sonarr"
     /\ config.search_mode = "season")
    => LET commands == posted \o pending
           selected_pairs == {<<items_to_search[j].seriesId, items_to_search[j].seasonNumber>> :
                                 j \in 1..Len(items_to_search)}
       IN  /\ \A pair \in selected_pairs :
                 Cardinality(SeasonSearchesOf(commands, config.instance_name,
                                              pair[1], pair[2])) = 1
           /\ \A j \in 1..Len(commands) :
                 (commands[j].name = "SeasonSearch"
                  /\ commands[j].service = config.instance_name)
                 => <<commands[j].seriesId, commands[j].seasonNumber>> \in selected_pairs

\* Episodes 1 and 2 of season 1 were selected and all commands are sent:
\* one SeasonSearch was posted for the instance.
C10_Witness ==
    /\ ~dry_run
    /\ pc = "dispatch"
    /\ pending = <<>>
    /\ config.search_mode = "season"
    /\ Len(items_to_search) = 2
    /\ items_to_search[1].id # items_to_search[2].id
    /\ items_to_search[1].seasonNumber = 1
    /\ items_to_search[2].seasonNumber = 1
    /\ Cardinality({j \in 1..Len(posted) : posted[j].service = config.instance_name}) = 1
    /\ posted[Len(posted)].name = "SeasonSearch"

(***************************************************************************)
(* C11: a SeasonSearch is not posted for a (seriesId, seasonNumber) pair   *)
(* that was already the target of a SeasonSearch in this run, or in an     *)
(* earlier run whose history was saved, while less than cooldownSeconds    *)
(* have passed since that search.                                          *)
(***************************************************************************)
SavedWithinCooldown(key) ==
    key \in DOMAIN dispatched.saved /\ now - dispatched.saved[key] < cooldown_seconds

C11_SeasonNotSearchedAgain ==
    [][(Len(posted') > Len(posted) /\ posted'[Len(posted')].name = "SeasonSearch") =>
          LET command == posted'[Len(posted')]
              key == "sonarr-series-" \o ToString(command.seriesId) \o "-season-"
                         \o ToString(command.seasonNumber)
          IN  /\ key \notin DOMAIN dispatched.run
              /\ ~SavedWithinCooldown(key)]_vars

(***************************************************************************)
(* C12: a movie or episode that was searched in a run whose history was    *)
(* saved is in neither candidate list of a later run that starts less than *)
(* cooldownSeconds after the search; once cooldownSeconds have passed, the *)
(* scan lists it again when its file has not met the quality cutoff.       *)
(***************************************************************************)
\* The ids the scan found monitored, with a file whose quality cutoff is not met.
UnmetIds ==
    IF config.service_type = "radarr"
    THEN {api.movies[j].id : j \in {a \in 1..Len(api.movies) :
                                       /\ api.movies[a].monitored /\ api.movies[a].hasFile
                                       /\ api.movies[a].movieFile.ok
                                       /\ api.movies[a].movieFile.qualityCutoffNotMet}}
    ELSE {sf[2].episode.id : sf \in {x \in ScannedEpisodeFiles :
                                        /\ x[1].monitored /\ x[1].episodeFileCount > 0
                                        /\ SeriesCutoffScore(x[1]) # None
                                        /\ x[2].episode_ok /\ x[2].episode.monitored
                                        /\ x[2].qualityCutoffNotMet}}

C12_CooldownAcrossRuns ==
    (pc = "select" /\ ScanCompleted) =>
        \A id \in 1..MaxItems :
            LET key == config.service_type \o "-" \o ToString(id)
            IN  key \in DOMAIN dispatched.saved =>
                    IF now - dispatched.saved[key] < cooldown_seconds
                    THEN id \notin IdsIn(cutoff_unmet_items) \cup IdsIn(cf_upgradeable_items)
                    ELSE id \in UnmetIds => id \in IdsIn(cutoff_unmet_items)

\* Movie 1 was searched in the first run; half a day later it is left out
\* of the candidates while movie 2, in the same condition, is listed.
C12_Witness ==
    /\ pc = "select"
    /\ ScanCompleted
    /\ config.service_type = "radarr"
    /\ dispatched.saved = [k \in {"radarr-1"} |-> FirstTime]
    /\ now = FirstTime + HalfDay
    /\ UnmetIds = {1, 2}
    /\ IdsIn(cutoff_unmet_items) = {2}

(***************************************************************************)
(* C13: after get_radarr_upgradeables every movie that is monitored, has a *)
(* file, is not cooling down and whose file record was fetched is once in  *)
(* tier 1, with the reason "Quality cutoff not met", iff its file has      *)
(* qualityCutoffNotMet, and once in tier 2, with the reason                *)
(* "CF score {current} < cutoff {cutoff}", iff qualityCutoffNotMet is      *)
(* false, its profile defines a cutoffFormatScore and its customFormatScore*)
(* is below it; every other movie is in neither list.                      *)
(***************************************************************************)
ReasonsOf(items, id) == {items[j].reason : j \in {a \in 1..Len(items) : items[a].id = id}}

C13_MovieClassification ==
    RadarrScanned =>
        \A j \in 1..Len(api.movies) :
            LET movie == api.movies[j]
                file == movie.movieFile
                cutoff == IF movie.qualityProfileId \in DOMAIN api.profiles
                          THEN api.profiles[movie.qualityProfileId] ELSE None
                classified == /\ movie.monitored /\ movie.hasFile /\ file.ok
                              /\ ~CoolingDown("radarr-" \o ToString(movie.id))
                tier1 == classified /\ file.qualityCutoffNotMet
                tier2 == /\ classified /\ ~file.qualityCutoffNotMet
                         /\ cutoff # None /\ file.customFormatScore < cutoff
            IN  /\ Occurrences(cutoff_unmet_items, movie.id) = (IF tier1 THEN 1 ELSE 0)
                /\ Occurrences(cf_upgradeable_items, movie.id) = (IF tier2 THEN 1 ELSE 0)
                /\ tier1 => ReasonsOf(cutoff_unmet_items, movie.id) = {"Quality cutoff not met"}
                /\ tier2 => ReasonsOf(cf_upgradeable_items, movie.id) =
                                {"CF score " \o ToString(file.customFormatScore)
                                    \o " < cutoff " \o ToString(cutoff)}

\* Movie 1 has not met its quality cutoff, movie 2 has and scores 500 under a
\* cutoff score of 1000: one item in each tier.
C13_Witness ==
    /\ RadarrScanned
    /\ api.movies[1].movieFile.qualityCutoffNotMet
    /\ ~api.movies[2].movieFile.qualityCutoffNotMet
    /\ IdsIn(cutoff_unmet_items) = {1}
    /\ IdsIn(cf_upgradeable_items) = {2}
    /\ cf_upgradeable_items[1].reason = "CF score 500 < cutoff 1000"

(***************************************************************************)
(* C14: once globalRemaining is 0 no further instance is processed: no     *)
(* scan is made with an empty budget, the loop index does not advance, and *)
(* when the searches of the current instance are sent the run goes to      *)
(* saving the history.                                                     *)
(***************************************************************************)
C14_ExhaustedBudgetEndsLoop ==
    /\ [](pc = "select" => remaining_global_upgrades > 0)
    /\ [][(pc # "start" /\ remaining_global_upgrades = 0) =>
              /\ i' = i
              /\ pc' \in {"trigger", "dispatch", "finalize", "done"}
              /\ (api' = api \/ api' = NoResponse)
              /\ selected_total' = selected_total
              /\ (pc = "dispatch" /\ pending = <<>>) => pc' = "finalize"]_vars

\* The first of two instances used up a budget of 2: the run is about to
\* save the history and the second instance was never reached.
C14_Witness ==
    /\ pc = "finalize"
    /\ Len(all_configs) = 2
    /\ i = 1
    /\ max_upgrades = 2
    /\ remaining_global_upgrades = 0
    /\ selected_total = 2

(***************************************************************************)
(* C15: an instance whose connection check, profile fetch (failed or       *)
(* empty) or item list fetch fails yields no candidates; main then selects *)
(* and sends nothing for it, leaves the global budget, the history and the *)
(* history file as they were, and goes on to the next instance, which is   *)
(* scanned like any other.                                                 *)
(***************************************************************************)
ScanFailed == ~api.conn \/ DOMAIN api.profiles = {} \/ ~api.fetched

C15_FailedInstanceIsolated ==
    /\ [][(pc = "select" /\ ScanFailed) =>
              /\ cutoff_unmet_items = <<>>
              /\ cf_upgradeable_items = <<>>
              /\ remaining_global_upgrades' = remaining_global_upgrades
              /\ selected_total' = selected_total
              /\ search_history' = search_history
              /\ disk' = disk
              /\ posted' = posted
              /\ pending' = pending
              /\ pc' = "loop"
              /\ i' = i + 1]_vars
    /\ []((pc = "loop" /\ i <= Len(all_configs)) => ENABLED Scan)

\* The movie list of the first of two instances could not be fetched: there
\* are no candidates although the library holds upgradeable movies.
C15_Witness ==
    /\ pc = "select"
    /\ i = 1
    /\ Len(all_configs) = 2
    /\ api.conn
    /\ DOMAIN api.profiles # {}
    /\ ~api.fetched
    /\ api.movies # <<>>
    /\ cutoff_unmet_items = <<>>
    /\ remaining_global_upgrades = 2

(***************************************************************************)
(* C16: no episode of a series that is not monitored, or whose             *)
(* episodeFileCount is 0, is in either candidate list of                   *)
(* get_sonarr_upgradeables.                                                *)
(***************************************************************************)
C16_SkippedSeriesNotClassified ==
    (pc = "scanned" /\ config.service_type = "sonarr") =>
        \A sf \in ScannedEpisodeFiles :
            (sf[2].episode_ok /\ (~sf[1].monitored \/ sf[1].episodeFileCount = 0))
            => sf[2].episode.id \notin
                   IdsIn(cutoff_unmet_items) \cup IdsIn(cf_upgradeable_items)

(***************************************************************************)
(* C17: for every instance load_configs returns, each of the two caps is   *)
(* the unlimited sentinel when its variable holds a negative integer or is *)
(* not set, and 0 when it holds 0; an instance whose cap is 0 gets no item *)
(* of that tier selected.                                                  *)
(***************************************************************************)
IsNegative(s) == \E n \in 1..MaxBudget : s = "-" \o ToString(n)

\* The cap read from the variable: negative -> unlimited, "0" -> 0, and the
\* given value when the variable is not set.
CapNormalized(cap, name, when_unset) ==
    /\ name \notin DOMAIN env => cap = when_unset
    /\ (name \in DOMAIN env /\ IsNegative(env[name])) => cap = 2147483647
    /\ (name \in DOMAIN env /\ env[name] = "0") => cap = 0

ConfigsLoaded == env # NoEnv /\ pc # "load_configs"

\* A cap of 0 selects nothing of its tier.
ZeroCapSelectsNone ==
    [][pc = "select" =>
          /\ config.num_cutoff_unmet_to_upgrade = 0 =>
                 (cutoff_selected' = <<>> /\ Len(items_to_search') = Len(cf_selected'))
          /\ config.num_to_upgrade = 0 =>
                 (cf_selected' = <<>> /\ Len(items_to_search') = Len(cutoff_selected'))]_vars

C17_CapsNormalized ==
    /\ [](ConfigsLoaded =>
             \A k \in 1..Len(all_configs) :
                 LET prefix == all_configs[k].instance_name
                 IN  /\ CapNormalized(all_configs[k].num_cutoff_unmet_to_upgrade,
                                      prefix \o "_NUM_CUTOFF_UNMET_TO_UPGRADE", 2147483647)
                     /\ CapNormalized(all_configs[k].num_to_upgrade,
                                      prefix \o "_NUM_TO_UPGRADE", 2147483647))
    /\ ZeroCapSelectsNone

(***************************************************************************)
(* C17, amended: as above, but a cutoff-unmet cap whose variable is not    *)
(* set is 0 (no tier 1 item is selected), while a score cap whose variable *)
(* is not set is the unlimited sentinel.                                   *)
(***************************************************************************)
C17_CapsNormalizedUnsetCutoffZero ==
    /\ [](ConfigsLoaded =>
             \A k \in 1..Len(all_configs) :
                 LET prefix == all_configs[k].instance_name
                 IN  /\ CapNormalized(all_configs[k].num_cutoff_unmet_to_upgrade,
                                      prefix \o "_NUM_CUTOFF_UNMET_TO_UPGRADE", 0)
                     /\ CapNormalized(all_configs[k].num_to_upgrade,
                                      prefix \o "_NUM_TO_UPGRADE", 2147483647))
    /\ ZeroCapSelectsNone

\* RADARR0 with NUM_TO_UPGRADE=-1 and no NUM_CUTOFF_UNMET_TO_UPGRADE: the
\* movie below its quality cutoff is passed over, the others are selected.
C17_Witness ==
    /\ pc = "trigger"
    /\ config.instance_name = "RADARR0"
    /\ "RADARR0_NUM_CUTOFF_UNMET_TO_UPGRADE" \notin DOMAIN env
    /\ "RADARR0_NUM_TO_UPGRADE" \in DOMAIN env
    /\ env["RADARR0_NUM_TO_UPGRADE"] = "-1"
    /\ config.num_cutoff_unmet_to_upgrade = 0
    /\ config.num_to_upgrade = 2147483647
    /\ cutoff_unmet_items # <<>>
    /\ cutoff_selected = <<>>
    /\ cf_selected # <<>>
    /\ Len(cf_selected) = Len(cf_upgradeable_items)

(***************************************************************************)
(* C18: load_history returns exactly the entries of the history file with  *)
(* now - timestamp < cooldownSeconds, each with its timestamp; no entry    *)
(* with now - timestamp >= cooldownSeconds is returned; a missing or       *)
(* corrupt file gives the empty mapping and the run goes on.               *)
(***************************************************************************)
C18_LoadHistoryPrunes ==
    pc \in {"history", "crashed"} =>
        IF disk.ok
        THEN /\ pc = "history"
             /\ \A k \in DOMAIN disk.data :
                    IF now - disk.data[k] < cooldown_seconds
                    THEN k \in DOMAIN search_history /\ search_history[k] = disk.data[k]
                    ELSE k \notin DOMAIN search_history
             /\ DOMAIN search_history \subseteq DOMAIN disk.data
        ELSE pc = "history" /\ DOMAIN search_history = {}

(***************************************************************************)
(* C19: update_history leaves one entry per key "<serviceType>-<itemId>"   *)
(* of the selected items, with the timestamp of the call, whatever the     *)
(* history held for the key before, and every other entry as it was;       *)
(* applied again with the same items at the same time it changes nothing.  *)
(***************************************************************************)
SearchedKeys(items) ==
    {items[j].service_type \o "-" \o ToString(items[j].id) : j \in 1..Len(items)}

C19_UpdateIdempotent ==
    /\ [][(pc = "unit" /\ pc' = "updated") =>
              /\ DOMAIN search_history' = DOMAIN search_history \cup SearchedKeys(items_to_search')
              /\ \A k \in SearchedKeys(items_to_search') : search_history'[k] = now
              /\ \A k \in DOMAIN search_history \ SearchedKeys(items_to_search') :
                     search_history'[k] = search_history[k]]_vars
    /\ [][(pc = "updated" /\ pc' = "updated_twice") =>
              search_history' = search_history]_vars

\* The history held a season key written half a day earlier: after two
\* updates for movies 1 and 2 both movies carry the time of the call, once
\* each, and the season key is as it was.
C19_Witness ==
    /\ pc = "updated_twice"
    /\ Len(items_to_search) = 2
    /\ items_to_search[1].id = 1 /\ items_to_search[2].id = 2
    /\ items_to_search[1].service_type = "radarr"
    /\ items_to_search[2].service_type = "radarr"
    /\ DOMAIN search_history = {"radarr-1", "radarr-2", "sonarr-series-1-season-1"}
    /\ search_history["radarr-1"] = now
    /\ search_history["radarr-2"] = now
    /\ search_history["sonarr-series-1-season-1"] = now - 43200

(***************************************************************************)
(* C20: get_quality_profile_details returns a mapping with one entry per   *)
(* profile id; its cutoffQualityName is the name of the first item of the  *)
(* profile whose quality id is the cutoff of the profile, and "N/A" when   *)
(* no item has it (a profile without a cutoff, items without a quality     *)
(* record); when the profile list is unavailable the mapping is empty.     *)
(***************************************************************************)
\* The positions of the items of a profile that carry the cutoff quality.
CutoffItems(profile) ==
    {j \in 1..Len(profile.items) :
        /\ profile.items[j].has_quality
        /\ profile.cutoff # None
        /\ profile.items[j].quality.id = profile.cutoff}

C20_CutoffQualityName ==
    pc = "details" =>
        /\ ~profile_details.raised
        /\ IF ~qualityprofile.ok
           THEN DOMAIN profile_details.details = {}
           ELSE LET profiles == qualityprofile.profiles
                    \* the profile an id stands for: the last one of the list with the id
                    LastOf(id) == profiles[Least({0 - j : j \in {a \in 1..Len(profiles) :
                                                                  profiles[a].id = id}}) * (0 - 1)]
                IN  /\ DOMAIN profile_details.details =
                           {profiles[j].id : j \in 1..Len(profiles)}
                    /\ \A id \in DOMAIN profile_details.details :
                           profile_details.details[id].cutoffQualityName =
                               IF CutoffItems(LastOf(id)) = {} THEN "N/A"
                               ELSE LastOf(id).items[Least(CutoffItems(LastOf(id)))].quality.name

(***************************************************************************)
(* C21: an instance with a queue size limit whose queue holds at least     *)
(* that many records yields no candidates, whatever its profiles and       *)
(* library hold: nothing is selected or sent for it and the budget and the *)
(* history stay as they were.  Without a limit, or with a queue below it,  *)
(* the scan goes on: every item it found below its quality cutoff, and not *)
(* cooling down, is a tier 1 candidate.                                    *)
(***************************************************************************)
QueueAtLimit == config.queue_size_limit # None /\ api.queue >= config.queue_size_limit

C21_QueueGate ==
    /\ []((pc = "select" /\ QueueAtLimit) =>
             cutoff_unmet_items = <<>> /\ cf_upgradeable_items = <<>>)
    /\ [][(pc = "select" /\ QueueAtLimit) =>
              /\ remaining_global_upgrades' = remaining_global_upgrades
              /\ selected_total' = selected_total
              /\ search_history' = search_history
              /\ posted' = posted
              /\ pending' = pending
              /\ pc' = "loop"
              /\ i' = i + 1]_vars
    /\ []((pc = "select" /\ ~QueueAtLimit /\ api.conn /\ DOMAIN api.profiles # {}
           /\ api.fetched) =>
             \A id \in UnmetIds :
                 ~CoolingDown(config.service_type \o "-" \o ToString(id))
                 => id \in IdsIn(cutoff_unmet_items))

\* The first instance has a limit of 1 and one record in its queue: its
\* library of movies below their quality cutoff gives no candidate.
C21_Witness ==
    /\ pc = "select"
    /\ i = 1
    /\ config.queue_size_limit = 1
    /\ api.conn
    /\ api.queue = 1
    /\ DOMAIN api.profiles # {}
    /\ api.fetched
    /\ UnmetIds # {}
    /\ cutoff_unmet_items = <<>>
    /\ cf_upgradeable_items = <<>>
    /\ remaining_global_upgrades > 0

(***************************************************************************)
(* C22: a search recorded for an item of one instance does not make the    *)
(* item with the same id of another instance of the same service type cool *)
(* down: when the second instance of a run is scanned, every item it finds *)
(* below its quality cutoff is a tier 1 candidate unless the history file  *)
(* the run loaded already held its key within the cooldown.                *)
(***************************************************************************)
LoadedCoolingDown(key) ==
    disk.ok /\ key \in DOMAIN disk.data /\ now - disk.data[key] < cooldown_seconds

C22_InstancesIndependent ==
    (pc = "select" /\ i = 2 /\ ScanCompleted) =>
        \A id \in UnmetIds :
            ~LoadedCoolingDown(config.service_type \o "-" \o ToString(id))
            => id \in IdsIn(cutoff_unmet_items)

(***************************************************************************)
(* C23: the items selected for an instance are pairwise distinct: no id is *)
(* selected twice, no id occurs twice in the id list of a MoviesSearch or  *)
(* EpisodeSearch, and the budget an instance uses is the number of         *)
(* distinct items it selected.                                             *)
(***************************************************************************)
NoIdTwice(ids) == \A a, b \in 1..Len(ids) : a # b => ids[a] # ids[b]

C23_SelectedItemsDistinct ==
    /\ [](pc \in {"trigger", "dispatch"} =>
             /\ \A id \in IdsIn(items_to_search) : Occurrences(items_to_search, id) = 1
             /\ \A j \in 1..Len(pending) : NoIdTwice(pending[j].ids)
             /\ \A j \in 1..Len(posted) : NoIdTwice(posted[j].ids))
    /\ [][pc = "select" =>
              remaining_global_upgrades - remaining_global_upgrades' =
                  Cardinality(IdsIn(items_to_search'))]_vars

(***************************************************************************)
(* C24: get_sonarr_upgradeables lists no episode of a series whose quality *)
(* profile has no cutoffFormatScore, not even one whose file has           *)
(* qualityCutoffNotMet; get_radarr_upgradeables still lists a movie whose  *)
(* profile has no cutoffFormatScore in tier 1 when its file has            *)
(* qualityCutoffNotMet.                                                    *)
(***************************************************************************)
C24_NoCutoffScoreSkipsSeries ==
    /\ SonarrScanned =>
          \A sf \in ScannedEpisodeFiles :
              (SeriesCutoffScore(sf[1]) = None /\ sf[2].episode_ok)
              => sf[2].episode.id \notin
                     IdsIn(cutoff_unmet_items) \cup IdsIn(cf_upgradeable_items)
    /\ RadarrScanned =>
          \A j \in 1..Len(api.movies) :
              LET movie == api.movies[j]
              IN  (/\ movie.monitored /\ movie.hasFile /\ movie.movieFile.ok
                   /\ movie.movieFile.qualityCutoffNotMet
                   /\ movie.qualityProfileId \in DOMAIN api.profiles
                   /\ api.profiles[movie.qualityProfileId] = None
                   /\ ~CoolingDown("radarr-" \o ToString(movie.id)))
                  => Occurrences(cutoff_unmet_items, movie.id) = 1

\* A monitored series with files under a profile without a cutoff score:
\* its monitored episode 1, below the quality cutoff and never searched, is
\* in neither list.
C24_Witness ==
    /\ SonarrScanned
    /\ search_history = EmptyHistory
    /\ api.series[1].monitored
    /\ api.series[1].episodeFileCount > 0
    /\ SeriesCutoffScore(api.series[1]) = None
    /\ api.series[1].episode_files[1].episode_ok
    /\ api.series[1].episode_files[1].episode.monitored
    /\ api.series[1].episode_files[1].qualityCutoffNotMet
    /\ cutoff_unmet_items = <<>>
    /\ cf_upgradeable_items = <<>>

(***************************************************************************)
(* C25: when at least one tier 2 item is selected for an instance, the     *)
(* number of tier 1 items selected for it is min(|tier 1 candidates|,      *)
(* tier 1 cap): tier 2 never takes global budget that a tier 1 candidate   *)
(* of the instance could have used within its cap.                         *)
(***************************************************************************)
C25_Tier1OutranksTier2 ==
    (pc = "trigger" /\ cf_selected # <<>>) =>
        Len(cutoff_selected) =
            Least({Len(cutoff_unmet_items), config.num_cutoff_unmet_to_upgrade})

\* A budget of 2, one candidate in each tier and no cap in the way: the
\* tier 1 movie is selected, and the tier 2 movie with what is left.
C25_Witness ==
    /\ pc = "trigger"
    /\ config.service_type = "radarr"
    /\ max_upgrades = 2
    /\ Len(cutoff_unmet_items) = 1
    /\ Len(cf_upgradeable_items) = 1
    /\ config.num_cutoff_unmet_to_upgrade > 0
    /\ Len(cutoff_selected) = 1
    /\ Len(cf_selected) = 1
    /\ remaining_global_upgrades = 0

(***************************************************************************)
(* C26: a movie whose file lookup returns nothing, or an episode file      *)
(* whose episode lookup returns nothing, is in neither candidate list, and *)
(* the lists are otherwise what they would be had the lookup succeeded:    *)
(* with any answer in place of the missing one, the scan gives the same    *)
(* lists once the entries of that one item are left out.                   *)
(***************************************************************************)
WithoutId(items, id) ==
    LET Other(x) == x.id # id
    IN  SelectSeq(items, Other)

\* The movies, monitored and with a file, whose file lookup returned nothing.
FailedMovieLookups ==
    {j \in 1..Len(api.movies) :
        /\ api.movies[j].monitored /\ api.movies[j].hasFile
        /\ ~api.movies[j].movieFile.ok}

\* The episode files of the series whose episode lookup returned nothing.
FailedEpisodeLookups ==
    {j \in 1..Len(api.series[1].episode_files) : ~api.series[1].episode_files[j].episode_ok}

C26_FailedLookupSkipsOneItem ==
    /\ RadarrScanned =>
          \A j \in FailedMovieLookups :
              /\ api.movies[j].id \notin
                     IdsIn(cutoff_unmet_items) \cup IdsIn(cf_upgradeable_items)
              /\ \A cutoff_not_met \in BOOLEAN, score \in Scores :
                    LET answer == [ok |-> TRUE, qualityCutoffNotMet |-> cutoff_not_met,
                                   customFormatScore |-> score]
                        lists == get_radarr_upgradeables(
                                     config, [api EXCEPT !.movies[j].movieFile = answer],
                                     search_history, now, cooldown_seconds)
                    IN  /\ WithoutId(lists.cutoff_unmet, api.movies[j].id) = cutoff_unmet_items
                        /\ WithoutId(lists.cf_upgradeable, api.movies[j].id)
                               = cf_upgradeable_items
    /\ (SonarrScanned /\ api.series # <<>>) =>
          \A j \in FailedEpisodeLookups :
              LET id == api.series[1].episode_files[j].episode.id
              IN  /\ id \notin IdsIn(cutoff_unmet_items) \cup IdsIn(cf_upgradeable_items)
                  /\ \A monitored \in BOOLEAN :
                        LET lists == get_sonarr_upgradeables(
                                         config,
                                         [api EXCEPT !.series[1].episode_files[j].episode_ok = TRUE,
                                                     !.series[1].episode_files[j].episode.monitored
                                                         = monitored],
                                         search_history, now, cooldown_seconds)
                        IN  /\ WithoutId(lists.cutoff_unmet, id) = cutoff_unmet_items
                            /\ WithoutId(lists.cf_upgradeable, id) = cf_upgradeable_items

\* The file of movie 1 could not be fetched; movie 2, below its quality
\* cutoff, is listed all the same.
C26_Witness ==
    /\ RadarrScanned
    /\ search_history = EmptyHistory
    /\ FailedMovieLookups = {1}
    /\ api.movies[2].monitored /\ api.movies[2].hasFile
    /\ api.movies[2].movieFile.ok /\ api.movies[2].movieFile.qualityCutoffNotMet
    /\ IdsIn(cutoff_unmet_items) = {2}
    /\ cf_upgradeable_items = <<>>

(***************************************************************************)
(* C27: a run that is not dry saves the history once, at its end: the run  *)
(* never stops short of its end, it ends with exactly one save_history     *)
(* call, no search is posted after the save, and the mapping saved holds   *)
(* the entries load_history kept from the file and, with the time of the   *)
(* run, the keys of the items selected in the run.                         *)
(***************************************************************************)
\* The keys "<serviceType>-<itemId>" among the keys searched in this run.
SearchedItemKeys ==
    {k \in DOMAIN dispatched.run :
        \E st \in {"radarr", "sonarr"}, id \in ItemIds : k = st \o "-" \o ToString(id)}

\* The entries of the history file that are younger than the cooldown.
KeptFromFile == {k \in DOMAIN disk.data : disk.ok /\ now - disk.data[k] < cooldown_seconds}

C27_HistorySavedOnceAtEnd ==
    /\ [](~dry_run => (pc = "done" \/ ENABLED Next))
    /\ [](saves <= 1 /\ ((pc = "done" /\ ~dry_run) => saves = 1))
    /\ [][saves = 1 => posted' = posted]_vars
    /\ [][saves' # saves =>
              /\ pc = "finalize"
              /\ KeptFromFile \cup SearchedItemKeys \subseteq DOMAIN search_history
              /\ DOMAIN search_history \subseteq KeptFromFile \cup DOMAIN dispatched.run
              /\ \A k \in DOMAIN search_history :
                    search_history[k] = IF k \in DOMAIN dispatched.run THEN now
                                        ELSE disk.data[k]]_vars

(***************************************************************************)
(* C28: after the history is loaded a run changes it only in               *)
(* trigger_grouped_searches, and only for the items selected for the       *)
(* instance at hand, each of which is part of a command to be sent: every  *)
(* key that is new or has a new timestamp is the key of such an item and   *)
(* carries the time of the run, every other entry (of candidates not       *)
(* selected, of other items) stays as it was, no entry is removed, and the *)
(* scan of an instance leaves the history as it is.                        *)
(***************************************************************************)
\* The item is covered by one of the commands.
HandedToDispatch(item, commands) ==
    \E j \in 1..Len(commands) :
        /\ commands[j].service = item.service
        /\ \/ item.id \in {commands[j].ids[a] : a \in 1..Len(commands[j].ids)}
           \/ /\ commands[j].name = "SeasonSearch"
              /\ commands[j].seriesId = item.seriesId
              /\ commands[j].seasonNumber = item.seasonNumber

C28_HistoryWrittenForSelectedOnly ==
    [][pc # "start" =>
          /\ DOMAIN search_history \subseteq DOMAIN search_history'
          /\ \A k \in DOMAIN search_history' :
                (k \notin DOMAIN search_history \/ search_history'[k] # search_history[k])
                => /\ pc = "trigger"
                   /\ k \in SearchedKeys(items_to_search)
                   /\ search_history'[k] = now
                   /\ \A j \in 1..Len(items_to_search) :
                         HandedToDispatch(items_to_search[j], pending')
          /\ (pc = "loop" /\ pc' = "select") => search_history' = search_history]_vars

\* The file held radarr-1 and sonarr-1, searched half a day ago; movie 2
\* was selected: its key is new, the two old entries are as they were.
C28_Witness ==
    /\ ~dry_run
    /\ pc = "dispatch"
    /\ config.service_type = "radarr"
    /\ Len(items_to_search) = 1
    /\ items_to_search[1].id = 2
    /\ DOMAIN search_history = {"radarr-1", "radarr-2", "sonarr-1"}
    /\ search_history["radarr-1"] = now - HalfDay
    /\ search_history["sonarr-1"] = now - HalfDay
    /\ search_history["radarr-2"] = now

(***************************************************************************)
(* C29: with a global cap of 0 no instance is contacted or scanned,        *)
(* nothing is selected, grouped or posted, and the history stays what      *)
(* load_history made of the file: the entries younger than the cooldown,   *)
(* with their timestamps, which is what the run saves.                     *)
(***************************************************************************)
C29_ZeroGlobalCap ==
    /\ []((max_upgrades = 0 /\ pc # "start") =>
             /\ api = NoResponse
             /\ config = NoConfig
             /\ cutoff_unmet_items = <<>>
             /\ cf_upgradeable_items = <<>>
             /\ items_to_search = <<>>
             /\ pending = <<>>
             /\ posted = <<>>
             /\ selected_total = 0)
    /\ [][(max_upgrades = 0 /\ pc = "start" /\ pc' = "loop") =>
              /\ DOMAIN search_history' = KeptFromFile
              /\ \A k \in KeptFromFile : search_history'[k] = disk.data[k]]_vars
    /\ [][(max_upgrades = 0 /\ pc # "start") => search_history' = search_history]_vars
    /\ [][(max_upgrades = 0 /\ disk' # disk /\ disk'.ok) =>
              disk'.data = search_history]_vars

\* A run with a cap of 0 over instances with libraries to search: it ended
\* with the two entries of the file, half a day old, saved as they were.
C29_Witness ==
    /\ max_upgrades = 0
    /\ ~dry_run
    /\ pc = "done"
    /\ saves = 1
    /\ posted = <<>>
    /\ disk.ok
    /\ DOMAIN disk.data = {"radarr-1", "sonarr-1"}
    /\ disk.data["radarr-1"] = now - HalfDay
    /\ search_history = disk.data

(***************************************************************************)
(* C30: for the items selected for an instance trigger_grouped_searches    *)
(* prepares one MoviesSearch with the ids of all selected movies, if there *)
(* are any, and in episode mode one EpisodeSearch with the ids of all      *)
(* selected episodes, if there are any, and no other command of these two  *)
(* names; every command is for the instance at hand, none has an empty id  *)
(* list, and what is posted is the next prepared command, as it is.        *)
(***************************************************************************)
IdsOfType(items, type) ==
    LET OfType(x) == x.type = type
    IN  IdsOf(SelectSeq(items, OfType))

Named(commands, name) == {j \in 1..Len(commands) : commands[j].name = name}

C30_OneBatchPerInstance ==
    /\ [][pc = "trigger" =>
              LET selected == cutoff_selected \o cf_selected
                  movieIds == IdsOfType(selected, "movie")
                  episodeIds == IdsOfType(selected, "episode")
              IN  /\ \A j \in 1..Len(pending') : pending'[j].service = config.instance_name
                  /\ Cardinality(Named(pending', "MoviesSearch")) =
                         (IF movieIds # <<>> THEN 1 ELSE 0)
                  /\ \A j \in Named(pending', "MoviesSearch") : pending'[j].ids = movieIds
                  /\ Cardinality(Named(pending', "EpisodeSearch")) =
                         (IF episodeIds # <<>> /\ config.search_mode = "episode"
                          THEN 1 ELSE 0)
                  /\ \A j \in Named(pending', "EpisodeSearch") : pending'[j].ids = episodeIds
                  /\ \A j \in 1..Len(pending') :
                        pending'[j].name \in {"MoviesSearch", "EpisodeSearch"}
                        => pending'[j].ids # <<>>]_vars
    /\ [][posted' # posted =>
              /\ ~dry_run
              /\ pending # <<>>
              /\ Head(pending).service = config.instance_name
              /\ posted' = Append(posted, Head(pending))]_vars

\* Two movies were selected for the first instance: one MoviesSearch with
\* both ids is all that was posted.
C30_Witness ==
    /\ ~dry_run
    /\ pc = "dispatch"
    /\ pending = <<>>
    /\ i = 1
    /\ config.service_type = "radarr"
    /\ Len(items_to_search) = 2
    /\ Len(posted) = 1
    /\ posted[1].name = "MoviesSearch"
    /\ posted[1].service = config.instance_name
    /\ posted[1].ids = <<items_to_search[1].id, items_to_search[2].id>>
    /\ posted[1].ids[1] # posted[1].ids[2]

====
